---- MODULE Spec2Model ----
(***************************************************************************)
(* A model of the beanone/ontology knowledge graph store                   *)
(* (src/ontology/knowledge_graph.py): the in-memory entity map and         *)
(* relation list of one KnowledgeGraph instance, the NDJSON file it        *)
(* persists to, and its nine public operations.                            *)
(*                                                                         *)
(* A Python str is a sequence of one-character strings, so that lower()    *)
(* and the substring test of search_nodes are computed, not assumed.       *)
(* A Python dict is a sequence of entries with pairwise distinct keys, in  *)
(* insertion order.                                                        *)
(*                                                                         *)
(* The GraphManager of src/ontology/memory_server.py is modelled with its  *)
(* handle, its lock and the threads that call it, one step per read or     *)
(* write of the handle and per acquisition or release of the lock.         *)
(***************************************************************************)
EXTENDS Integers, Sequences, FiniteSets, TLC

VARIABLES
    entities,   \* KnowledgeGraph.entities: dict name -> Entity, in insertion order
    relations,  \* KnowledgeGraph.relations: list of Relation
    file,       \* the file at storage_path: [exists, lines]
    last,       \* the last public call: [op, res]
    graph,      \* GraphManager._graph: None or the instance it refers to
    lock,       \* GraphManager._lock: the set of the threads that hold it
    pc,         \* where each thread stands in its call
    call,       \* the call each thread is in, or made last
    ret,        \* what get_graph returned to each thread, or how its call ended
    made,       \* how many KnowledgeGraph instances were constructed
    retired,    \* the instances constructed before the last one: [entities, relations]
    is_dir,     \* whether storage_path is a directory
    environ,    \* os.environ: the variables that are set, with their values
    storage_path,   \* KnowledgeGraph.storage_path: a Path, as its parts
    disk,       \* the files at the locations other than that of storage_path
    shared,     \* the sets of entities whose observations are one list object
    resource    \* the KnowledgeGraphResource, if one was created, and its graph attribute

\* entities and relations are those of the instance constructed last, which
\* is instance number made; instance i < made is retired[i]
mvars == <<graph, lock, pc, call, ret, made, retired, is_dir, resource>>

\* the environment of the process and what storage_path was resolved to
pvars == <<environ, storage_path, disk>>

vars == <<entities, relations, file, last, graph, lock, pc, call, ret, made, retired, is_dir,
          environ, storage_path, disk, shared, resource>>

-----------------------------------------------------------------------------
(* Bounds of the model.                                                    *)

MaxList == 2        \* longest argument list of a call
MaxObs == 1         \* most observations one entity holds
MaxRels == 1        \* most relations the store holds
MaxRelsGraph == 3   \* most relations the store holds under SpecGraph
MaxObsObs == 2      \* most observations one entity holds under SpecObs

-----------------------------------------------------------------------------
(* The strings the calls are made with.                                    *)

NameA == <<"A">>
NameB == <<"b">>
Names == {NameA, NameB}
TypeT == <<"T">>
TypeU == <<"u">>
EntityTypes == {TypeT, TypeU}
ObsX == <<"x">>
ObsY == <<"x", "Y">>
ObsStrings == {ObsX, ObsY}
RelationTypes == {<<"r">>}
Queries == {<< >>, <<"a">>, <<"B">>, <<"t">>, <<"Y">>, <<"x", "y">>, <<"y", "x">>, <<"z">>}

RECURSIVE SeqsUpTo(_, _)
SeqsUpTo(S, n) ==
    IF n = 0 THEN {<< >>}
    ELSE LET shorter == SeqsUpTo(S, n - 1)
         IN  shorter \cup {Append(s, e) : s \in {t \in shorter : Len(t) = n - 1}, e \in S}

-----------------------------------------------------------------------------
(* models.py                                                               *)

Entity(name, entity_type, observations) ==
    [name |-> name, entity_type |-> entity_type, observations |-> observations]

Relation(from_entity, to_entity, relation_type) ==
    [from_entity |-> from_entity, to_entity |-> to_entity, relation_type |-> relation_type]

-----------------------------------------------------------------------------
(* Python dict, keyed by the entity name.                                  *)

DictKeys(d) == {d[i].name : i \in DOMAIN d}

DictGet(d, k) == d[CHOOSE i \in DOMAIN d : d[i].name = k]

\* d[k] = v: a present key keeps its position, a new key goes last
DictSet(d, v) ==
    IF v.name \in DictKeys(d)
    THEN [i \in DOMAIN d |-> IF d[i].name = v.name THEN v ELSE d[i]]
    ELSE Append(d, v)

\* del d[k]
DictDel(d, k) == SelectSeq(d, LAMBDA e : e.name # k)

-----------------------------------------------------------------------------
(* The persisted file: one JSON text per line.                             *)

\* json.dump of a dict: the text of a JSON object
JsonDump(obj) == [kind |-> "json", value |-> obj]

IsJsonLine(line) == line.kind = "json"

\* json.loads of a JSON text
JsonLoads(line) == line.value

\* a load that takes an object with from_entity for a relation before it
\* looks for a name
LoadObjectRelationFirst(data, ents, rels) ==
    IF {"from_entity", "to_entity", "relation_type"} \subseteq DOMAIN data
    THEN [entities |-> ents,
          relations |-> Append(rels, Relation(data.from_entity, data.to_entity,
                                              data.relation_type))]
    ELSE IF {"name", "entity_type"} \subseteq DOMAIN data
    THEN [entities |-> DictSet(ents, Entity(data.name, data.entity_type,
                                   IF "observations" \in DOMAIN data
                                   THEN data.observations ELSE << >>)),
          relations |-> rels]
    ELSE [entities |-> ents, relations |-> rels]

\* the body of the loop for a line that parsed to the object data: the
\* KeyError of a missing field leaves the line without effect
LoadObject(data, ents, rels) ==
    LET observations == IF "observations" \in DOMAIN data
                        THEN data.observations ELSE << >>
    IN  IF "name" \in DOMAIN data
        THEN IF "entity_type" \in DOMAIN data
             THEN [entities |-> DictSet(ents, Entity(data.name, data.entity_type, observations)),
                   relations |-> rels]
             ELSE [entities |-> ents, relations |-> rels]
        ELSE IF "from_entity" \in DOMAIN data
        THEN IF {"to_entity", "relation_type"} \subseteq DOMAIN data
             THEN [entities |-> ents,
                   relations |-> Append(rels, Relation(data.from_entity, data.to_entity,
                                                       data.relation_type))]
             ELSE [entities |-> ents, relations |-> rels]
        ELSE [entities |-> ents, relations |-> rels]

\* a load that gives up at the first line that is not JSON
RECURSIVE LoadLinesUntilInvalid(_, _, _)
LoadLinesUntilInvalid(lines, ents, rels) ==
    IF lines = << >> THEN [entities |-> ents, relations |-> rels]
    ELSE LET line == Head(lines)
             rest == Tail(lines)
         IN  IF line.kind = "blank" THEN LoadLinesUntilInvalid(rest, ents, rels)
             ELSE IF ~IsJsonLine(line) THEN [entities |-> ents, relations |-> rels]
             ELSE LET out == LoadObject(JsonLoads(line), ents, rels)
                  IN  LoadLinesUntilInvalid(rest, out.entities, out.relations)

\* the loop over the lines of the content: a blank line and a line that is
\* not JSON are passed over
RECURSIVE LoadLines(_, _, _)
LoadLines(lines, ents, rels) ==
    IF lines = << >> THEN [entities |-> ents, relations |-> rels]
    ELSE LET line == Head(lines)
             rest == Tail(lines)
         IN  IF line.kind = "blank" THEN LoadLines(rest, ents, rels)
             ELSE IF ~IsJsonLine(line) THEN LoadLines(rest, ents, rels)
             ELSE LET out == LoadObject(JsonLoads(line), ents, rels)
                  IN  LoadLines(rest, out.entities, out.relations)

initialize_graph_from_data(lines) == LoadLines(lines, << >>, << >>)

\* _load_graph on an existing file f: the entities and relations it yields
_load_graph(f) ==
    IF \A i \in DOMAIN f.lines : f.lines[i].kind = "blank"
    THEN [entities |-> << >>, relations |-> << >>]
    ELSE initialize_graph_from_data(f.lines)

\* an entity line that leaves the observations out
EntityLineWithoutObservations(e) ==
    JsonDump([name |-> e.name, entity_type |-> e.entity_type])

EntityLine(e) ==
    JsonDump([name |-> e.name, entity_type |-> e.entity_type, observations |-> e.observations])

RelationLine(r) ==
    JsonDump([from_entity |-> r.from_entity, to_entity |-> r.to_entity,
              relation_type |-> r.relation_type])

\* _save_graph: the file it leaves
_save_graph(ents, rels) ==
    [exists |-> TRUE,
     lines |-> [i \in DOMAIN ents |-> EntityLine(ents[i])]
               \o [i \in DOMAIN rels |-> RelationLine(rels[i])]]

-----------------------------------------------------------------------------
(* The arguments of the calls: plain dicts and lists of strings.           *)

\* entity dicts; the observations key may be absent
EntityData ==
    {[name |-> NameA, entity_type |-> TypeT],
     [name |-> NameB, entity_type |-> TypeU, observations |-> <<ObsX>>]}

\* entity dicts created without observations or with two of them
EntityDataGraph ==
    {[name |-> n, entity_type |-> TypeT] : n \in Names}
    \cup {[name |-> NameB, entity_type |-> TypeU, observations |-> <<ObsX, ObsY>>]}

\* relation dicts: A -> b, b -> A and the self-relation b -> b
RelationData ==
    {[from_entity |-> f, to_entity |-> t, relation_type |-> rt] :
        f \in Names, t \in Names, rt \in RelationTypes} \
    {[from_entity |-> NameA, to_entity |-> NameA, relation_type |-> rt] : rt \in RelationTypes}

ObservationData ==
    {[entity_name |-> n, contents |-> <<ObsY>>] : n \in Names}

\* observation dicts that add one observation
ObservationDataObs ==
    {[entity_name |-> n, contents |-> <<o>>] : n \in Names, o \in ObsStrings}

\* entity dicts created without observations
EntityDataObs == {[name |-> n, entity_type |-> TypeT] : n \in Names}

DeletionData ==
    {[entity_name |-> n, observation |-> o] : n \in Names, o \in ObsStrings}

\* dicts as no validation would pass them: an empty name, a missing field
EntityDataInvalid ==
    {[name |-> NameA, entity_type |-> TypeT],
     [name |-> << >>, entity_type |-> TypeT],
     [entity_type |-> TypeT],
     [name |-> NameB]}

RelationDataInvalid ==
    {[from_entity |-> NameA, to_entity |-> NameA, relation_type |-> <<"r">>],
     [from_entity |-> << >>, to_entity |-> NameA, relation_type |-> <<"r">>],
     [from_entity |-> NameA, to_entity |-> NameA],
     [to_entity |-> NameA, relation_type |-> <<"r">>]}

RelationDataStored ==
    {[from_entity |-> f, to_entity |-> NameA, relation_type |-> <<"r">>] : f \in {NameA, << >>}}

\* the argument lists of the calls
EntityLists == SeqsUpTo(EntityData, MaxList)
EntityListsGraph == SeqsUpTo(EntityDataGraph, MaxList)
RelationLists == SeqsUpTo(RelationData, MaxList)
ObservationLists == SeqsUpTo(ObservationData, MaxList)
DeletionLists == SeqsUpTo(DeletionData, MaxList)
NameLists == SeqsUpTo(Names, MaxList)
EntityListsObs == SeqsUpTo(EntityDataObs, MaxList)
ObservationListsObs == SeqsUpTo(ObservationDataObs, MaxList)
EntityListsInvalid == SeqsUpTo(EntityDataInvalid, MaxList)
RelationListsInvalid == SeqsUpTo(RelationDataInvalid, MaxList)
RelationListsStored == SeqsUpTo(RelationDataStored, MaxList)

\* a KeyError raised to the caller for a dict that lacks the key
KeyError(key) == <<"KeyError", key>>

\* the least element of a set of indices, 0 when the set is empty
FirstOf(hits) ==
    IF hits = {} THEN 0 ELSE CHOOSE i \in hits : \A j \in hits : i <= j

-----------------------------------------------------------------------------
(* create_entities                                                         *)

\* entity_data.get("observations", [])
GetObservations(entity_data) ==
    IF "observations" \in DOMAIN entity_data THEN entity_data.observations ELSE << >>

\* the first loop testing the wrong field of the given entity
FirstExistingByType(ents, input) ==
    FirstOf({i \in DOMAIN input : input[i].entity_type \in DictKeys(ents)})

\* the first loop: the first given entity whose name is a key of the map
FirstExisting(ents, input) ==
    FirstOf({i \in DOMAIN input :
                "name" \in DOMAIN input[i] /\ input[i].name \in DictKeys(ents)})

\* the first given dict on which entity_data["name"] raises KeyError
FirstNameless(input) ==
    FirstOf({i \in DOMAIN input : "name" \notin DOMAIN input[i]})

\* the second loop; it stops where entity_data["entity_type"] raises KeyError,
\* with the entities before that one inserted
RECURSIVE InsertEntities(_, _)
InsertEntities(ents, input) ==
    IF input = << >> THEN [entities |-> ents, raised |-> FALSE]
    ELSE LET entity_data == Head(input)
         IN  IF "entity_type" \notin DOMAIN entity_data
             THEN [entities |-> ents, raised |-> TRUE]
             ELSE InsertEntities(
                      DictSet(ents, Entity(entity_data.name, entity_data.entity_type,
                                           GetObservations(entity_data))),
                      Tail(input))

\* create_entities with the check and the insertion in one loop
RECURSIVE create_entities_one_loop(_, _)
create_entities_one_loop(ents, input) ==
    IF input = << >>
    THEN [entities |-> ents, saved |-> TRUE, res |-> <<"Successfully created entities">>]
    ELSE LET entity_data == Head(input)
         IN  IF entity_data.name \in DictKeys(ents)
             THEN [entities |-> ents, saved |-> FALSE,
                   res |-> <<"Entity already exists: ", entity_data.name>>]
             ELSE create_entities_one_loop(
                      Append(ents, Entity(entity_data.name, entity_data.entity_type,
                                          GetObservations(entity_data))),
                      Tail(input))

create_entities_result(ents, input) ==
    LET k == FirstExisting(ents, input)
        n == FirstNameless(input)
        inserted == InsertEntities(ents, input)
    IN  IF n # 0 /\ (k = 0 \/ n < k)
        THEN [entities |-> ents, saved |-> FALSE, res |-> KeyError("name")]
        ELSE IF k # 0
        THEN [entities |-> ents, saved |-> FALSE,
              res |-> <<"Entity already exists: ", input[k].name>>]
        ELSE IF inserted.raised
        THEN [entities |-> inserted.entities, saved |-> FALSE,
              res |-> KeyError("entity_type")]
        ELSE [entities |-> inserted.entities, saved |-> TRUE,
              res |-> <<"Successfully created entities">>]

-----------------------------------------------------------------------------
(* create_relations                                                        *)

\* create_relations that leaves out a relation the list already holds
RECURSIVE create_relations_skip_present(_, _, _)
create_relations_skip_present(ents, rels, input) ==
    IF input = << >>
    THEN [relations |-> rels, saved |-> TRUE, res |-> <<"Successfully created relations">>]
    ELSE LET relation_data == Head(input)
             relation == Relation(relation_data.from_entity, relation_data.to_entity,
                                  relation_data.relation_type)
         IN  IF relation_data.from_entity \notin DictKeys(ents)
                \/ relation_data.to_entity \notin DictKeys(ents)
             THEN [relations |-> rels, saved |-> FALSE,
                   res |-> <<"One or both entities not found:",
                             relation_data.from_entity, relation_data.to_entity>>]
             ELSE create_relations_skip_present(ents,
                      IF \E i \in DOMAIN rels : rels[i] = relation
                      THEN rels ELSE Append(rels, relation),
                      Tail(input))

RECURSIVE create_relations_result(_, _, _)
create_relations_result(ents, rels, input) ==
    IF input = << >>
    THEN [relations |-> rels, saved |-> TRUE, res |-> <<"Successfully created relations">>]
    ELSE LET relation_data == Head(input)
         IN  IF "from_entity" \notin DOMAIN relation_data
             THEN [relations |-> rels, saved |-> FALSE, res |-> KeyError("from_entity")]
             ELSE IF "to_entity" \notin DOMAIN relation_data
             THEN [relations |-> rels, saved |-> FALSE, res |-> KeyError("to_entity")]
             ELSE IF relation_data.from_entity \notin DictKeys(ents)
                     \/ relation_data.to_entity \notin DictKeys(ents)
             THEN [relations |-> rels, saved |-> FALSE,
                   res |-> <<"One or both entities not found:",
                             relation_data.from_entity, relation_data.to_entity>>]
             ELSE IF "relation_type" \notin DOMAIN relation_data
             THEN [relations |-> rels, saved |-> FALSE, res |-> KeyError("relation_type")]
             ELSE create_relations_result(ents,
                      Append(rels, Relation(relation_data.from_entity, relation_data.to_entity,
                                            relation_data.relation_type)),
                      Tail(input))

-----------------------------------------------------------------------------
(* add_observations                                                        *)

FirstMissing(ents, input) ==
    FirstOf({i \in DOMAIN input : input[i].entity_name \notin DictKeys(ents)})

\* the entities that hold the list object that the entity name holds, sh
\* being the sets of entities whose observations are one list object
Holders(sh, name) == {name} \cup UNION {c \in sh : name \in c}

\* the entities names hold a list of their own, or are no more
Unshare(sh, names) == {d \in {c \ names : c \in sh} : Cardinality(d) >= 2}

\* entity.observations.extend(contents): the list object is extended in
\* place, and every entity that holds it shows the contents
Extend(ents, sh, obs_data) ==
    [i \in DOMAIN ents |->
        IF ents[i].name \in Holders(sh, obs_data.entity_name)
        THEN [ents[i] EXCEPT !.observations = @ \o obs_data.contents]
        ELSE ents[i]]

RECURSIVE ExtendObservations(_, _, _)
ExtendObservations(ents, sh, input) ==
    IF input = << >> THEN ents
    ELSE ExtendObservations(Extend(ents, sh, Head(input)), sh, Tail(input))

\* add_observations with the check and the extension in one loop
RECURSIVE add_observations_one_loop(_, _, _)
add_observations_one_loop(ents, sh, input) ==
    IF input = << >>
    THEN [entities |-> ents, saved |-> TRUE, res |-> <<"Successfully added observations">>]
    ELSE LET obs_data == Head(input)
         IN  IF obs_data.entity_name \notin DictKeys(ents)
             THEN [entities |-> ents, saved |-> FALSE,
                   res |-> <<"Entity not found: ", obs_data.entity_name>>]
             ELSE add_observations_one_loop(Extend(ents, sh, obs_data), sh, Tail(input))

add_observations_result(ents, sh, input) ==
    LET k == FirstMissing(ents, input)
    IN  IF k # 0
        THEN [entities |-> ents, saved |-> FALSE,
              res |-> <<"Entity not found: ", input[k].entity_name>>]
        ELSE [entities |-> ExtendObservations(ents, sh, input), saved |-> TRUE,
              res |-> <<"Successfully added observations">>]

-----------------------------------------------------------------------------
(* delete_entities                                                         *)

\* delete_entities that removes only the relations leaving a deleted entity
RECURSIVE delete_entities_from_only(_, _, _)
delete_entities_from_only(ents, rels, entity_names) ==
    IF entity_names = << >>
    THEN [entities |-> ents, relations |-> rels, saved |-> TRUE,
          res |-> <<"Successfully deleted entities">>]
    ELSE LET name == Head(entity_names)
         IN  IF name \in DictKeys(ents)
             THEN delete_entities_from_only(
                      DictDel(ents, name),
                      SelectSeq(rels, LAMBDA r : name # r.from_entity),
                      Tail(entity_names))
             ELSE delete_entities_from_only(ents, rels, Tail(entity_names))

RECURSIVE delete_entities_result(_, _, _)
delete_entities_result(ents, rels, entity_names) ==
    IF entity_names = << >>
    THEN [entities |-> ents, relations |-> rels, saved |-> TRUE,
          res |-> <<"Successfully deleted entities">>]
    ELSE LET name == Head(entity_names)
         IN  IF name \in DictKeys(ents)
             THEN delete_entities_result(
                      DictDel(ents, name),
                      SelectSeq(rels, LAMBDA r : name \notin {r.from_entity, r.to_entity}),
                      Tail(entity_names))
             ELSE delete_entities_result(ents, rels, Tail(entity_names))

-----------------------------------------------------------------------------
(* delete_observations                                                     *)

\* the first element of s equal to x left out, the others kept
RECURSIVE WithoutFirst(_, _)
WithoutFirst(s, x) ==
    IF s = << >> THEN << >>
    ELSE IF Head(s) = x THEN Tail(s)
    ELSE <<Head(s)>> \o WithoutFirst(Tail(s), x)

\* delete_observations that removes one occurrence of the observation
RECURSIVE delete_observations_first_only(_, _)
delete_observations_first_only(ents, deletions) ==
    IF deletions = << >>
    THEN [entities |-> ents, saved |-> TRUE, res |-> <<"Successfully deleted observations">>]
    ELSE LET del_data == Head(deletions)
         IN  IF del_data.entity_name \notin DictKeys(ents)
             THEN [entities |-> ents, saved |-> FALSE,
                   res |-> <<"Entity not found: ", del_data.entity_name>>]
             ELSE LET entity == DictGet(ents, del_data.entity_name)
                  IN  delete_observations_first_only(
                          DictSet(ents,
                              [entity EXCEPT !.observations =
                                  WithoutFirst(@, del_data.observation)]),
                          Tail(deletions))

RECURSIVE delete_observations_result(_, _)
delete_observations_result(ents, deletions) ==
    IF deletions = << >>
    THEN [entities |-> ents, saved |-> TRUE, res |-> <<"Successfully deleted observations">>]
    ELSE LET del_data == Head(deletions)
         IN  IF del_data.entity_name \notin DictKeys(ents)
             THEN [entities |-> ents, saved |-> FALSE,
                   res |-> <<"Entity not found: ", del_data.entity_name>>]
             ELSE LET entity == DictGet(ents, del_data.entity_name)
                  IN  delete_observations_result(
                          DictSet(ents,
                              [entity EXCEPT !.observations =
                                  SelectSeq(@, LAMBDA obs : obs # del_data.observation)]),
                          Tail(deletions))

-----------------------------------------------------------------------------
(* delete_relations                                                        *)

Matches(r, rel_data) ==
    /\ r.from_entity = rel_data.from_entity
    /\ r.to_entity = rel_data.to_entity
    /\ r.relation_type = rel_data.relation_type

FirstNotFound(rels, input) ==
    FirstOf({i \in DOMAIN input : ~\E k \in DOMAIN rels : Matches(rels[k], input[i])})

\* the first relation that matches rel_data left out, the others kept
RECURSIVE WithoutFirstMatch(_, _)
WithoutFirstMatch(rels, rel_data) ==
    IF rels = << >> THEN << >>
    ELSE IF Matches(Head(rels), rel_data) THEN Tail(rels)
    ELSE <<Head(rels)>> \o WithoutFirstMatch(Tail(rels), rel_data)

\* the second loop removing one relation for each tuple
RECURSIVE RemoveFirstRelations(_, _)
RemoveFirstRelations(rels, input) ==
    IF input = << >> THEN rels
    ELSE RemoveFirstRelations(WithoutFirstMatch(rels, Head(input)), Tail(input))

RECURSIVE RemoveRelations(_, _)
RemoveRelations(rels, input) ==
    IF input = << >> THEN rels
    ELSE RemoveRelations(SelectSeq(rels, LAMBDA r : ~Matches(r, Head(input))), Tail(input))

\* delete_relations with the check and the removal in one loop
RECURSIVE delete_relations_one_loop(_, _)
delete_relations_one_loop(rels, input) ==
    IF input = << >>
    THEN [relations |-> rels, saved |-> TRUE, res |-> <<"Successfully deleted relations">>]
    ELSE LET rel_data == Head(input)
         IN  IF ~\E i \in DOMAIN rels : Matches(rels[i], rel_data)
             THEN [relations |-> rels, saved |-> FALSE,
                   res |-> <<"Relation not found: ", rel_data.from_entity,
                             " -> ", rel_data.to_entity>>]
             ELSE delete_relations_one_loop(
                      SelectSeq(rels, LAMBDA r : ~Matches(r, rel_data)), Tail(input))

delete_relations_result(rels, input) ==
    LET k == FirstNotFound(rels, input)
    IN  IF k # 0
        THEN [relations |-> rels, saved |-> FALSE,
              res |-> <<"Relation not found: ", input[k].from_entity, " -> ", input[k].to_entity>>]
        ELSE [relations |-> RemoveRelations(rels, input), saved |-> TRUE,
              res |-> <<"Successfully deleted relations">>]

-----------------------------------------------------------------------------
(* The read-only operations                                                *)

\* the dict {name: {entity_type, observations}} the three read operations build
EntityView(ents) ==
    [i \in DOMAIN ents |->
        [name |-> ents[i].name, entity_type |-> ents[i].entity_type,
         observations |-> ents[i].observations]]

RelationView(rels) ==
    [i \in DOMAIN rels |->
        [from_entity |-> rels[i].from_entity, to_entity |-> rels[i].to_entity,
         relation_type |-> rels[i].relation_type]]

read_graph_result(ents, rels) ==
    [entities |-> EntityView(ents), relations |-> RelationView(rels)]

\* str.lower() on the characters in use
LowerChar(c) ==
    CASE c = "A" -> "a"
      [] c = "B" -> "b"
      [] c = "T" -> "t"
      [] c = "U" -> "u"
      [] c = "X" -> "x"
      [] c = "Y" -> "y"
      [] c = "Z" -> "z"
      [] c = "R" -> "r"
      [] c = "E" -> "e"
      [] c = "F" -> "f"
      [] OTHER -> c

Lower(str) == [i \in DOMAIN str |-> LowerChar(str[i])]

\* Python's "q in s" on two strings
IsSubstring(q, str) ==
    \E i \in 0..(Len(str) - Len(q)) : SubSeq(str, i + 1, i + Len(q)) = q

\* the match on the fields as they are stored, not lower-cased
EntityMatchesCaseSensitive(entity, query) ==
    \/ IsSubstring(query, entity.name)
    \/ IsSubstring(query, entity.entity_type)
    \/ \E i \in DOMAIN entity.observations : IsSubstring(query, entity.observations[i])

EntityMatches(entity, query) ==
    \/ IsSubstring(query, Lower(entity.name))
    \/ IsSubstring(query, Lower(entity.entity_type))
    \/ \E i \in DOMAIN entity.observations : IsSubstring(query, Lower(entity.observations[i]))

\* a search that takes the empty query to match nothing
search_nodes_nothing_for_empty(ents, rels, q) ==
    LET query == Lower(q)
        matching_entities ==
            SelectSeq(ents, LAMBDA entity : query # << >> /\ EntityMatches(entity, query))
        matching_relations ==
            SelectSeq(rels, LAMBDA r : \/ r.from_entity \in DictKeys(matching_entities)
                                       \/ r.to_entity \in DictKeys(matching_entities))
    IN  [entities |-> EntityView(matching_entities),
         relations |-> RelationView(matching_relations)]

search_nodes_result(ents, rels, q) ==
    LET query == Lower(q)
        matching_entities == SelectSeq(ents, LAMBDA entity : EntityMatches(entity, query))
        matching_relations ==
            SelectSeq(rels, LAMBDA r : \/ r.from_entity \in DictKeys(matching_entities)
                                       \/ r.to_entity \in DictKeys(matching_entities))
    IN  [entities |-> EntityView(matching_entities),
         relations |-> RelationView(matching_relations)]

\* {name: self.entities[name] for name in names if name in self.entities}
RECURSIVE RequestedEntities(_, _, _)
RequestedEntities(ents, names, acc) ==
    IF names = << >> THEN acc
    ELSE LET name == Head(names)
         IN  IF name \in DictKeys(ents)
             THEN RequestedEntities(ents, Tail(names), DictSet(acc, DictGet(ents, name)))
             ELSE RequestedEntities(ents, Tail(names), acc)

\* open_nodes that follows a relation from its from_entity only
open_nodes_from_only(ents, rels, names) ==
    LET requested_entities == RequestedEntities(ents, names, << >>)
        requested_relations ==
            SelectSeq(rels, LAMBDA r : r.from_entity \in DictKeys(requested_entities))
    IN  [entities |-> EntityView(requested_entities),
         relations |-> RelationView(requested_relations)]

open_nodes_result(ents, rels, names) ==
    LET requested_entities == RequestedEntities(ents, names, << >>)
        requested_relations ==
            SelectSeq(rels, LAMBDA r : \/ r.from_entity \in DictKeys(requested_entities)
                                       \/ r.to_entity \in DictKeys(requested_entities))
    IN  [entities |-> EntityView(requested_entities),
         relations |-> RelationView(requested_relations)]

-----------------------------------------------------------------------------
(* The threads and the values of the GraphManager.                         *)

MaxMade == 2        \* most KnowledgeGraph instances constructed in one run

Threads == {1, 2}

\* the lock is the set of the threads that hold it
Free == {}

\* a handle is None or refers to the instance of a number
None == << >>
Ref(i) == <<i>>

\* how a call stands or ended: pending, a value returned by get_graph, a
\* return without a value, or an exception raised to the caller
Pending == [kind |-> "pending", graph |-> None, error |-> ""]
Value(g) == [kind |-> "value", graph |-> g, error |-> ""]
Returned == [kind |-> "returned", graph |-> None, error |-> ""]
Raised(e) == [kind |-> "raised", graph |-> None, error |-> e]

\* no KnowledgeGraphResource was created; one whose graph attribute is g
NoResource == [exists |-> FALSE, graph |-> None]
Resource(g) == [exists |-> TRUE, graph |-> g]

-----------------------------------------------------------------------------
(* The environment variables and the storage path resolved from them       *)

\* a path is the sequence of its parts; a value of MEMORY_FILE_NAME or
\* MEMORY_FILE_PATH is written as the parts it names, "." among them
DEFAULT_MEMORY_FILE_NAME == <<"memory.json">>
DEFAULT_LOCAL_STORAGE == <<"F", "a", "l", "s", "e">>    \* str(False)
DEFAULT_MEMORY_FILE_PATH == <<".">>

FileNames == {<<"m.json">>, <<"/", "tmp", "f.json">>}
LocalStorageValues == {<<"t", "r", "u", "e">>, <<"T", "r", "u", "e">>, <<"f", "a", "l", "s", "e">>}
FilePaths == {<<"d">>}

EnvValues ==
    [MEMORY_FILE_NAME |-> FileNames,
     LOCAL_STORAGE |-> LocalStorageValues,
     MEMORY_FILE_PATH |-> FilePaths]

\* os.getenv(key, default)
getenv(env, key, default) == IF key \in DOMAIN env THEN env[key] ELSE default

\* Path(str): the parts, without the "." ones
Path(parts) == SelectSeq(parts, LAMBDA part : part # ".")

\* Path.is_absolute()
IsAbsolute(path) == path # << >> /\ path[1] = "/"

\* path / name: an absolute name replaces the path
PathJoin(path, name) == IF IsAbsolute(Path(name)) THEN Path(name) ELSE path \o Path(name)

\* Path.cwd(): the working directory of the process, which no code changes
Cwd == <<"/", "cwd">>

\* a resolution that looks for the file in the base directory whatever
\* LOCAL_STORAGE says
ResolveStoragePathIgnoringFlag(env) ==
    PathJoin(Path(getenv(env, "MEMORY_FILE_PATH", DEFAULT_MEMORY_FILE_PATH)),
             getenv(env, "MEMORY_FILE_NAME", DEFAULT_MEMORY_FILE_NAME))

\* the assignments of __init__ up to self.storage_path
ResolveStoragePath(env) ==
    LET memory_file_name == getenv(env, "MEMORY_FILE_NAME", DEFAULT_MEMORY_FILE_NAME)
        local_storage == Lower(getenv(env, "LOCAL_STORAGE", DEFAULT_LOCAL_STORAGE))
                            = <<"t", "r", "u", "e">>
        memory_file_path == getenv(env, "MEMORY_FILE_PATH", DEFAULT_MEMORY_FILE_PATH)
    IN  IF local_storage
        THEN PathJoin(Cwd, memory_file_name)
        ELSE PathJoin(Path(memory_file_path), memory_file_name)

\* the file that open(path) opens: a relative path starts at the working directory
Location(path) == IF IsAbsolute(path) THEN path ELSE Cwd \o path

Environs ==
    UNION {{env \in [keys -> UNION {EnvValues[k] : k \in DOMAIN EnvValues}] :
                \A k \in keys : env[k] \in EnvValues[k]} : keys \in SUBSET DOMAIN EnvValues}

Locations == {Location(ResolveStoragePath(env)) : env \in Environs}

MissingFile == [exists |-> FALSE, lines |-> << >>]

\* no variable is set, no file is anywhere but at the storage path
NoEnviron == [key \in {} |-> << >>]
NoFiles == [location \in Locations |-> MissingFile]

-----------------------------------------------------------------------------
(* The nine public operations of one KnowledgeGraph instance, one call at  *)
(* a time.                                                                 *)

Call(op, res) == [op |-> op, res |-> res]

create_entities(input) ==
    LET out == create_entities_result(entities, input)
    IN  /\ entities' = out.entities
        /\ relations' = relations
        /\ file' = IF out.saved THEN _save_graph(out.entities, relations) ELSE file
        /\ last' = Call("create_entities", out.res)
        /\ UNCHANGED shared
        /\ UNCHANGED <<mvars, pvars>>

\* create_entities with dicts that hold one and the same list object as
\* their observations: each new Entity is given that list, not a copy
create_entities_shared(input) ==
    LET out == create_entities_result(entities, input)
        new == DictKeys(out.entities) \ DictKeys(entities)
    IN  /\ entities' = out.entities
        /\ relations' = relations
        /\ file' = IF out.saved THEN _save_graph(out.entities, relations) ELSE file
        /\ last' = Call("create_entities", out.res)
        /\ shared' = IF Cardinality(new) >= 2 THEN shared \cup {new} ELSE shared
        /\ UNCHANGED <<mvars, pvars>>

create_relations(input) ==
    LET out == create_relations_result(entities, relations, input)
    IN  /\ entities' = entities
        /\ relations' = out.relations
        /\ file' = IF out.saved THEN _save_graph(entities, out.relations) ELSE file
        /\ last' = Call("create_relations", out.res)
        /\ UNCHANGED shared
        /\ UNCHANGED <<mvars, pvars>>

add_observations(input) ==
    LET out == add_observations_result(entities, shared, input)
    IN  /\ entities' = out.entities
        /\ relations' = relations
        /\ file' = IF out.saved THEN _save_graph(out.entities, relations) ELSE file
        /\ last' = Call("add_observations", out.res)
        /\ UNCHANGED shared
        /\ UNCHANGED <<mvars, pvars>>

\* a delete_entities that writes after the lines the file holds
delete_entities_appending(entity_names) ==
    LET out == delete_entities_result(entities, relations, entity_names)
    IN  /\ entities' = out.entities
        /\ relations' = out.relations
        /\ file' = IF out.saved
                   THEN [exists |-> TRUE,
                         lines |-> file.lines \o _save_graph(out.entities, out.relations).lines]
                   ELSE file
        /\ last' = Call("delete_entities", out.res)
        /\ shared' = Unshare(shared, {entity_names[i] : i \in DOMAIN entity_names})
        /\ UNCHANGED <<mvars, pvars>>

delete_entities(entity_names) ==
    LET out == delete_entities_result(entities, relations, entity_names)
    IN  /\ entities' = out.entities
        /\ relations' = out.relations
        /\ file' = IF out.saved THEN _save_graph(out.entities, out.relations) ELSE file
        /\ last' = Call("delete_entities", out.res)
        /\ shared' = Unshare(shared, {entity_names[i] : i \in DOMAIN entity_names})
        /\ UNCHANGED <<mvars, pvars>>

\* the entities whose observations delete_observations assigns a new list
\* to: those named before the first name that is not found
Rebound(ents, deletions) ==
    LET k == FirstMissing(ents, deletions)
        n == IF k = 0 THEN Len(deletions) ELSE k - 1
    IN  {deletions[i].entity_name : i \in 1..n}

delete_observations(deletions) ==
    LET out == delete_observations_result(entities, deletions)
    IN  /\ entities' = out.entities
        /\ relations' = relations
        /\ file' = IF out.saved THEN _save_graph(out.entities, relations) ELSE file
        /\ last' = Call("delete_observations", out.res)
        /\ shared' = Unshare(shared, Rebound(entities, deletions))
        /\ UNCHANGED <<mvars, pvars>>

delete_relations(input) ==
    LET out == delete_relations_result(relations, input)
    IN  /\ entities' = entities
        /\ relations' = out.relations
        /\ file' = IF out.saved THEN _save_graph(entities, out.relations) ELSE file
        /\ last' = Call("delete_relations", out.res)
        /\ UNCHANGED shared
        /\ UNCHANGED <<mvars, pvars>>

\* a read_graph that hands out the relations and keeps none
read_graph_consuming ==
    /\ last' = Call("read_graph", read_graph_result(entities, relations))
    /\ relations' = << >>
    /\ UNCHANGED <<entities, file>>
    /\ UNCHANGED shared
    /\ UNCHANGED <<mvars, pvars>>

read_graph ==
    /\ last' = Call("read_graph", read_graph_result(entities, relations))
    /\ UNCHANGED <<entities, relations, file>>
    /\ UNCHANGED shared
    /\ UNCHANGED <<mvars, pvars>>

\* a search_nodes that saves like a mutating operation
search_nodes_saving(query) ==
    /\ last' = Call("search_nodes", search_nodes_result(entities, relations, query))
    /\ file' = _save_graph(entities, relations)
    /\ UNCHANGED <<entities, relations>>
    /\ UNCHANGED shared
    /\ UNCHANGED <<mvars, pvars>>

search_nodes(query) ==
    /\ last' = Call("search_nodes", search_nodes_result(entities, relations, query))
    /\ UNCHANGED <<entities, relations, file>>
    /\ UNCHANGED shared
    /\ UNCHANGED <<mvars, pvars>>

open_nodes(names) ==
    /\ last' = Call("open_nodes", open_nodes_result(entities, relations, names))
    /\ UNCHANGED <<entities, relations, file>>
    /\ UNCHANGED shared
    /\ UNCHANGED <<mvars, pvars>>

\* KnowledgeGraph() on a missing or empty file: the file exists and is empty,
\* the store is empty
Init ==
    /\ entities = << >>
    /\ relations = << >>
    /\ file = [exists |-> TRUE, lines |-> << >>]
    /\ last = Call("init", << >>)
    /\ graph = None
    /\ lock = Free
    /\ pc = [t \in Threads |-> "idle"]
    /\ call = [t \in Threads |-> "none"]
    /\ ret = [t \in Threads |-> Pending]
    /\ made = 1
    /\ retired = << >>
    /\ is_dir = FALSE
    /\ resource = NoResource
    /\ environ = NoEnviron
    /\ storage_path = ResolveStoragePath(NoEnviron)
    /\ disk = NoFiles
    /\ shared = {}

\* a call that would grow the store beyond the bounds is left out
WithinBounds ==
    /\ Len(relations') <= MaxRels
    /\ \A i \in DOMAIN entities' : Len(entities'[i].observations) <= MaxObs

Next ==
    \/ \E input \in EntityLists : create_entities(input) /\ WithinBounds
    \/ \E input \in RelationLists : create_relations(input) /\ WithinBounds
    \/ \E input \in ObservationLists : add_observations(input) /\ WithinBounds
    \/ \E entity_names \in NameLists : delete_entities(entity_names)
    \/ \E deletions \in DeletionLists : delete_observations(deletions)
    \/ \E input \in RelationLists : delete_relations(input)
    \/ read_graph
    \/ \E query \in Queries : search_nodes(query)
    \/ \E names \in NameLists : open_nodes(names)

Spec == Init /\ [][Next]_vars

\* the operations on entities and relations alone, with more relations
NextGraph ==
    \/ \E input \in EntityListsGraph : create_entities(input)
    \/ \E input \in RelationLists :
          create_relations(input) /\ Len(relations') <= MaxRelsGraph
    \/ \E entity_names \in NameLists : delete_entities(entity_names)
    \/ \E input \in RelationLists : delete_relations(input)

SpecGraph == Init /\ [][NextGraph]_vars

\* the operations on entities and their observations alone, with more observations
NextObs ==
    \/ \E input \in EntityListsObs : create_entities(input)
    \/ \E input \in ObservationListsObs :
          /\ add_observations(input)
          /\ \A i \in DOMAIN entities' : Len(entities'[i].observations) <= MaxObsObs
    \/ \E entity_names \in NameLists : delete_entities(entity_names)
    \/ \E deletions \in DeletionLists : delete_observations(deletions)

SpecObs == Init /\ [][NextObs]_vars

\* dicts made from one dict, as {**entity, "name": ...} makes them: they
\* hold the observations list of that dict
EntityDataShared ==
    {[name |-> name, entity_type |-> TypeT, observations |-> <<ObsX>>] : name \in Names}

EntityListsShared ==
    {<<pair[1], pair[2]>> :
        pair \in {p \in EntityDataShared \X EntityDataShared : p[1].name # p[2].name}}

\* the operations on entities and their observations, create_entities also
\* with dicts that hold one list
NextShared ==
    \/ \E input \in EntityListsShared : create_entities_shared(input)
    \/ \E input \in EntityListsObs : create_entities(input)
    \/ \E input \in ObservationListsObs :
          /\ add_observations(input)
          /\ \A i \in DOMAIN entities' : Len(entities'[i].observations) <= MaxObsObs
    \/ \E entity_names \in NameLists : delete_entities(entity_names)
    \/ \E deletions \in DeletionLists : delete_observations(deletions)

SpecShared == Init /\ [][NextShared]_vars

\* the six mutating operations, create_entities and create_relations with
\* dicts that hold an empty string or lack a field
NextInvalid ==
    \/ \E input \in EntityListsInvalid : create_entities(input)
    \/ \E input \in RelationListsInvalid : create_relations(input) /\ WithinBounds
    \/ \E input \in ObservationLists : add_observations(input) /\ WithinBounds
    \/ \E entity_names \in NameLists : delete_entities(entity_names)
    \/ \E deletions \in DeletionLists : delete_observations(deletions)
    \/ \E input \in RelationListsStored : delete_relations(input)

SpecInvalid == Init /\ [][NextInvalid]_vars

-----------------------------------------------------------------------------
(* KnowledgeGraph instances reached through the GraphManager               *)

EmptyState == [entities |-> << >>, relations |-> << >>]

\* the entities and relations of instance i
InstanceState(i) ==
    IF i = made THEN [entities |-> entities, relations |-> relations] ELSE retired[i]

\* instance i takes the entities ents and the relations rels
SetInstance(i, ents, rels) ==
    /\ entities' = IF i = made THEN ents ELSE entities
    /\ relations' = IF i = made THEN rels ELSE relations
    /\ retired' = IF i = made THEN retired
                  ELSE [retired EXCEPT ![i] = [entities |-> ents, relations |-> rels]]

\* a construction that leaves a missing file missing
KnowledgeGraphWithoutFile ==
    LET path == ResolveStoragePath(environ)
        same == Location(path) = Location(storage_path)
        found == IF same THEN file ELSE disk[Location(path)]
        loaded == IF found.exists THEN _load_graph(found) ELSE EmptyState
    IN  /\ made' = made + 1
        /\ retired' = IF made = 0 THEN retired
                      ELSE Append(retired, [entities |-> entities, relations |-> relations])
        /\ storage_path' = path
        /\ entities' = loaded.entities
        /\ relations' = loaded.relations
        /\ file' = found
        /\ disk' = IF same THEN disk
                   ELSE [disk EXCEPT ![Location(storage_path)] = file,
                                     ![Location(path)] = MissingFile]
        /\ shared' = {}
        /\ UNCHANGED environ

\* KnowledgeGraph() when storage_path is no directory: the path is resolved
\* from the environment; a missing file is created empty, an existing one is
\* loaded; the instance gets the next number.  file is from now on the file
\* at the new path, and the file at the path before is kept in disk
KnowledgeGraph ==
    LET path == ResolveStoragePath(environ)
        same == Location(path) = Location(storage_path)
        found == IF same THEN file ELSE disk[Location(path)]
        loaded == IF found.exists THEN _load_graph(found) ELSE EmptyState
    IN  /\ made' = made + 1
        /\ retired' = IF made = 0 THEN retired
                      ELSE Append(retired, [entities |-> entities, relations |-> relations])
        /\ storage_path' = path
        /\ entities' = loaded.entities
        /\ relations' = loaded.relations
        /\ file' = IF found.exists THEN found ELSE [exists |-> TRUE, lines |-> << >>]
        /\ disk' = IF same THEN disk
                   ELSE [disk EXCEPT ![Location(storage_path)] = file,
                                     ![Location(path)] = MissingFile]
        /\ shared' = {}
        /\ UNCHANGED environ

\* thread t goes on at p
Goto(t, p) == pc' = [pc EXCEPT ![t] = p]

\* the call of thread t ends with r
Finish(t, r) ==
    /\ pc' = [pc EXCEPT ![t] = "idle"]
    /\ ret' = [ret EXCEPT ![t] = r]

-----------------------------------------------------------------------------
(* GraphManager.get_graph, called directly or by a tool function           *)

\* if self._graph is None, the first test of the handle, outside the lock
get_check(t) ==
    /\ ret' = [ret EXCEPT ![t] = Pending]
    /\ Goto(t, IF graph = None THEN "get_acquire" ELSE "get_return")
    /\ UNCHANGED <<entities, relations, file, last, graph, lock, made, retired, is_dir, resource, pvars, shared>>

get_graph(t) ==
    /\ pc[t] = "idle"
    /\ call' = [call EXCEPT ![t] = "get_graph"]
    /\ get_check(t)

\* an acquisition that does not wait for the holder
get_acquire_unguarded(t) ==
    /\ pc[t] = "get_acquire"
    /\ lock' = lock \cup {t}
    /\ Goto(t, "get_recheck")
    /\ UNCHANGED <<entities, relations, file, last, graph, call, ret, made, retired, is_dir, resource, pvars, shared>>

\* with self._lock
get_acquire(t) ==
    /\ pc[t] = "get_acquire"
    /\ lock = Free
    /\ lock' = {t}
    /\ Goto(t, "get_recheck")
    /\ UNCHANGED <<entities, relations, file, last, graph, call, ret, made, retired, is_dir, resource, pvars, shared>>

\* get_graph without the second test of the handle
get_recheck_skipped(t) ==
    /\ pc[t] = "get_recheck"
    /\ Goto(t, "get_construct")
    /\ UNCHANGED <<entities, relations, file, last, graph, lock, call, ret, made, retired, is_dir, resource, pvars, shared>>

\* the second test of the handle, inside the lock
get_recheck(t) ==
    /\ pc[t] = "get_recheck"
    /\ Goto(t, IF graph = None THEN "get_construct" ELSE "get_release")
    /\ UNCHANGED <<entities, relations, file, last, graph, lock, call, ret, made, retired, is_dir, resource, pvars, shared>>

\* a failed construction that leaves the lock held
get_construct_keeping_lock(t) ==
    /\ pc[t] = "get_construct"
    /\ IF is_dir
       THEN /\ Finish(t, Raised("IsADirectoryError"))
            /\ UNCHANGED <<entities, relations, file, graph, lock, made, retired, pvars, shared>>
       ELSE /\ KnowledgeGraph
            /\ graph' = Ref(made')
            /\ Goto(t, "get_release")
            /\ UNCHANGED <<lock, ret>>
    /\ UNCHANGED <<last, call, is_dir, resource>>

\* self._graph = KnowledgeGraph(): open() on a directory raises, the error
\* leaves the with block, which releases the lock, and get_graph
get_construct(t) ==
    /\ pc[t] = "get_construct"
    /\ IF is_dir
       THEN /\ Finish(t, Raised("IsADirectoryError"))
            /\ lock' = Free
            /\ UNCHANGED <<entities, relations, file, graph, made, retired, pvars, shared>>
       ELSE /\ KnowledgeGraph
            /\ graph' = Ref(made')
            /\ Goto(t, "get_release")
            /\ UNCHANGED <<lock, ret>>
    /\ UNCHANGED <<last, call, is_dir, resource>>

\* the end of the with block
get_release(t) ==
    /\ pc[t] = "get_release"
    /\ lock' = Free
    /\ Goto(t, "get_return")
    /\ UNCHANGED <<entities, relations, file, last, graph, call, ret, made, retired, is_dir, resource, pvars, shared>>

\* return self._graph, read after the lock was released
get_return(t) ==
    /\ pc[t] = "get_return"
    /\ ret' = [ret EXCEPT ![t] = Value(graph)]
    /\ Goto(t, IF call[t] = "get_graph" THEN "idle" ELSE "tool")
    /\ UNCHANGED <<entities, relations, file, last, graph, lock, call, made, retired, is_dir, resource, pvars, shared>>

-----------------------------------------------------------------------------
(* The tool function create_entities: get_graph().create_entities(entities) *)

ToolEntityLists == {<<entity_data>> : entity_data \in EntityData}

tool_create_entities(t) ==
    /\ pc[t] = "idle"
    /\ call' = [call EXCEPT ![t] = "create_entities"]
    /\ get_check(t)

\* a tool function that runs the operation only while no thread holds the lock
tool_create_entities_call_under_lock(t, input) ==
    /\ pc[t] = "tool"
    /\ lock = Free
    /\ call[t] = "create_entities"
    /\ IF ret[t].graph = None
       THEN /\ Finish(t, Raised("AttributeError"))
            /\ UNCHANGED <<entities, relations, file, last, retired>>
       ELSE LET i == ret[t].graph[1]
                st == InstanceState(i)
                out == create_entities_result(st.entities, input)
            IN  /\ SetInstance(i, out.entities, st.relations)
                /\ file' = IF out.saved THEN _save_graph(out.entities, st.relations) ELSE file
                /\ last' = Call("create_entities", out.res)
                /\ Finish(t, ret[t])
    /\ UNCHANGED <<graph, lock, call, made, is_dir, resource, pvars, shared>>

\* the call on what get_graph returned: None has no create_entities
tool_create_entities_call(t, input) ==
    /\ pc[t] = "tool"
    /\ call[t] = "create_entities"
    /\ IF ret[t].graph = None
       THEN /\ Finish(t, Raised("AttributeError"))
            /\ UNCHANGED <<entities, relations, file, last, retired>>
       ELSE LET i == ret[t].graph[1]
                st == InstanceState(i)
                out == create_entities_result(st.entities, input)
            IN  /\ SetInstance(i, out.entities, st.relations)
                /\ file' = IF out.saved THEN _save_graph(out.entities, st.relations) ELSE file
                /\ last' = Call("create_entities", out.res)
                /\ Finish(t, ret[t])
    /\ UNCHANGED <<graph, lock, call, made, is_dir, resource, pvars, shared>>

-----------------------------------------------------------------------------
(* GraphManager.clear_graph                                                *)

clear_graph(t) ==
    /\ pc[t] = "idle"
    /\ call' = [call EXCEPT ![t] = "clear_graph"]
    /\ ret' = [ret EXCEPT ![t] = Pending]
    /\ Goto(t, "clear_acquire")
    /\ UNCHANGED <<entities, relations, file, last, graph, lock, made, retired, is_dir, resource, pvars, shared>>

\* with self._lock
clear_acquire(t) ==
    /\ pc[t] = "clear_acquire"
    /\ lock = Free
    /\ lock' = {t}
    /\ Goto(t, "clear_check")
    /\ UNCHANGED <<entities, relations, file, last, graph, call, ret, made, retired, is_dir, resource, pvars, shared>>

\* if self._graph is not None
clear_check(t) ==
    /\ pc[t] = "clear_check"
    /\ Goto(t, IF graph # None THEN "clear_clear" ELSE "clear_release")
    /\ UNCHANGED <<entities, relations, file, last, graph, lock, call, ret, made, retired, is_dir, resource, pvars, shared>>

\* self._graph.clear()
clear_clear(t) ==
    /\ pc[t] = "clear_clear"
    /\ SetInstance(graph[1], << >>, << >>)
    /\ Goto(t, "clear_reset")
    /\ UNCHANGED <<file, last, graph, lock, call, ret, made, is_dir, resource, pvars, shared>>

\* clear_graph that leaves the handle on the cleared instance
clear_reset_skipped(t) ==
    /\ pc[t] = "clear_reset"
    /\ Goto(t, "clear_release")
    /\ UNCHANGED <<entities, relations, file, last, graph, lock, call, ret, made, retired, is_dir, resource, pvars, shared>>

\* self._graph = None
clear_reset(t) ==
    /\ pc[t] = "clear_reset"
    /\ graph' = None
    /\ Goto(t, "clear_release")
    /\ UNCHANGED <<entities, relations, file, last, lock, call, ret, made, retired, is_dir, resource, pvars, shared>>

\* the end of the with block, and the return
clear_release(t) ==
    /\ pc[t] = "clear_release"
    /\ lock' = Free
    /\ Finish(t, Returned)
    /\ UNCHANGED <<entities, relations, file, last, graph, call, made, retired, is_dir, resource, pvars, shared>>

-----------------------------------------------------------------------------
(* GraphManager.save_graph                                                 *)

save_graph(t) ==
    /\ pc[t] = "idle"
    /\ call' = [call EXCEPT ![t] = "save_graph"]
    /\ ret' = [ret EXCEPT ![t] = Pending]
    /\ Goto(t, "save_acquire")
    /\ UNCHANGED <<entities, relations, file, last, graph, lock, made, retired, is_dir, resource, pvars, shared>>

save_acquire(t) ==
    /\ pc[t] = "save_acquire"
    /\ lock = Free
    /\ lock' = {t}
    /\ Goto(t, "save_check")
    /\ UNCHANGED <<entities, relations, file, last, graph, call, ret, made, retired, is_dir, resource, pvars, shared>>

\* if self._graph is not None: self._graph.save(); KnowledgeGraph has no
\* method save, so the call raises AttributeError, which releases the lock
save_check(t) ==
    /\ pc[t] = "save_check"
    /\ lock' = Free
    /\ Finish(t, IF graph # None THEN Raised("AttributeError") ELSE Returned)
    /\ UNCHANGED <<entities, relations, file, last, graph, call, made, retired, is_dir, resource, pvars, shared>>

-----------------------------------------------------------------------------
(* GraphManager.load_graph                                                 *)

load_graph(t) ==
    /\ pc[t] = "idle"
    /\ call' = [call EXCEPT ![t] = "load_graph"]
    /\ ret' = [ret EXCEPT ![t] = Pending]
    /\ Goto(t, "load_acquire")
    /\ UNCHANGED <<entities, relations, file, last, graph, lock, made, retired, is_dir, resource, pvars, shared>>

load_acquire(t) ==
    /\ pc[t] = "load_acquire"
    /\ lock = Free
    /\ lock' = {t}
    /\ Goto(t, "load_check")
    /\ UNCHANGED <<entities, relations, file, last, graph, call, ret, made, retired, is_dir, resource, pvars, shared>>

\* if self._graph is None
load_check(t) ==
    /\ pc[t] = "load_check"
    /\ Goto(t, IF graph = None THEN "load_construct" ELSE "load_load")
    /\ UNCHANGED <<entities, relations, file, last, graph, lock, call, ret, made, retired, is_dir, resource, pvars, shared>>

\* a failed construction in load_graph that leaves the lock held
load_construct_keeping_lock(t) ==
    /\ pc[t] = "load_construct"
    /\ IF is_dir
       THEN /\ Finish(t, Raised("IsADirectoryError"))
            /\ UNCHANGED <<entities, relations, file, graph, lock, made, retired, pvars, shared>>
       ELSE /\ KnowledgeGraph
            /\ graph' = Ref(made')
            /\ Goto(t, "load_load")
            /\ UNCHANGED <<lock, ret>>
    /\ UNCHANGED <<last, call, is_dir, resource>>

\* self._graph = KnowledgeGraph()
load_construct(t) ==
    /\ pc[t] = "load_construct"
    /\ IF is_dir
       THEN /\ Finish(t, Raised("IsADirectoryError"))
            /\ lock' = Free
            /\ UNCHANGED <<entities, relations, file, graph, made, retired, pvars, shared>>
       ELSE /\ KnowledgeGraph
            /\ graph' = Ref(made')
            /\ Goto(t, "load_load")
            /\ UNCHANGED <<lock, ret>>
    /\ UNCHANGED <<last, call, is_dir, resource>>

\* self._graph.load(): KnowledgeGraph has no method load, so the call raises
\* AttributeError, which releases the lock
load_load(t) ==
    /\ pc[t] = "load_load"
    /\ lock' = Free
    /\ Finish(t, Raised("AttributeError"))
    /\ UNCHANGED <<entities, relations, file, last, graph, call, made, retired, is_dir, resource, pvars, shared>>

-----------------------------------------------------------------------------
(* The storage path as a directory, while no file is there                 *)

mkdir ==
    /\ ~file.exists
    /\ ~is_dir
    /\ is_dir' = TRUE
    /\ UNCHANGED <<entities, relations, file, last, graph, lock, pc, call, ret, made, retired, pvars, shared, resource>>

rmdir ==
    /\ is_dir
    /\ is_dir' = FALSE
    /\ UNCHANGED <<entities, relations, file, last, graph, lock, pc, call, ret, made, retired, pvars, shared, resource>>

-----------------------------------------------------------------------------
(* The process before any KnowledgeGraph is constructed: no file yet       *)

InitManager ==
    /\ entities = << >>
    /\ relations = << >>
    /\ file = [exists |-> FALSE, lines |-> << >>]
    /\ last = Call("init", << >>)
    /\ graph = None
    /\ lock = Free
    /\ pc = [t \in Threads |-> "idle"]
    /\ call = [t \in Threads |-> "none"]
    /\ ret = [t \in Threads |-> Pending]
    /\ made = 0
    /\ retired = << >>
    /\ is_dir = FALSE
    /\ resource = NoResource
    /\ environ = NoEnviron
    /\ storage_path = ResolveStoragePath(NoEnviron)
    /\ disk = NoFiles
    /\ shared = {}

\* all calls of the manager, by all threads
NextManager ==
    \/ \E t \in Threads : get_graph(t)
    \/ \E t \in Threads : get_acquire(t)
    \/ \E t \in Threads : get_recheck(t)
    \/ \E t \in Threads : get_construct(t) /\ made' <= MaxMade
    \/ \E t \in Threads : get_release(t)
    \/ \E t \in Threads : get_return(t)
    \/ \E t \in Threads : tool_create_entities(t)
    \/ \E t \in Threads : \E input \in ToolEntityLists : tool_create_entities_call(t, input)
    \/ \E t \in Threads : clear_graph(t)
    \/ \E t \in Threads : clear_acquire(t)
    \/ \E t \in Threads : clear_check(t)
    \/ \E t \in Threads : clear_clear(t)
    \/ \E t \in Threads : clear_reset(t)
    \/ \E t \in Threads : clear_release(t)
    \/ \E t \in Threads : save_graph(t)
    \/ \E t \in Threads : save_acquire(t)
    \/ \E t \in Threads : save_check(t)
    \/ \E t \in Threads : load_graph(t)
    \/ \E t \in Threads : load_acquire(t)
    \/ \E t \in Threads : load_check(t)
    \/ \E t \in Threads : load_construct(t) /\ made' <= MaxMade
    \/ \E t \in Threads : load_load(t)
    \/ mkdir
    \/ rmdir

SpecManager == InitManager /\ [][NextManager]_vars

\* get_graph and the tool function alone: no call resets the handle
NextGet ==
    \/ \E t \in Threads : get_graph(t)
    \/ \E t \in Threads : get_acquire(t)
    \/ \E t \in Threads : get_recheck(t)
    \/ \E t \in Threads : get_construct(t) /\ made' <= MaxMade
    \/ \E t \in Threads : get_release(t)
    \/ \E t \in Threads : get_return(t)
    \/ \E t \in Threads : tool_create_entities(t)
    \/ \E t \in Threads : \E input \in ToolEntityLists : tool_create_entities_call(t, input)
    \/ mkdir
    \/ rmdir

SpecGet == InitManager /\ [][NextGet]_vars

\* all calls of the manager, one after the other by one thread
ThreadsSeq == {1}

NextSeq ==
    \/ \E t \in ThreadsSeq : get_graph(t)
    \/ \E t \in ThreadsSeq : get_acquire(t)
    \/ \E t \in ThreadsSeq : get_recheck(t)
    \/ \E t \in ThreadsSeq : get_construct(t) /\ made' <= MaxMade
    \/ \E t \in ThreadsSeq : get_release(t)
    \/ \E t \in ThreadsSeq : get_return(t)
    \/ \E t \in ThreadsSeq : tool_create_entities(t)
    \/ \E t \in ThreadsSeq : \E input \in ToolEntityLists : tool_create_entities_call(t, input)
    \/ \E t \in ThreadsSeq : clear_graph(t)
    \/ \E t \in ThreadsSeq : clear_acquire(t)
    \/ \E t \in ThreadsSeq : clear_check(t)
    \/ \E t \in ThreadsSeq : clear_clear(t)
    \/ \E t \in ThreadsSeq : clear_reset(t)
    \/ \E t \in ThreadsSeq : clear_release(t)
    \/ \E t \in ThreadsSeq : save_graph(t)
    \/ \E t \in ThreadsSeq : save_acquire(t)
    \/ \E t \in ThreadsSeq : save_check(t)
    \/ \E t \in ThreadsSeq : load_graph(t)
    \/ \E t \in ThreadsSeq : load_acquire(t)
    \/ \E t \in ThreadsSeq : load_check(t)
    \/ \E t \in ThreadsSeq : load_construct(t) /\ made' <= MaxMade
    \/ \E t \in ThreadsSeq : load_load(t)
    \/ mkdir
    \/ rmdir

SpecSeq == InitManager /\ [][NextSeq]_vars

-----------------------------------------------------------------------------
(* One KnowledgeGraph constructed on a file that was written by hand       *)

MaxLines == 3       \* most lines of such a file

\* a line that is empty or holds only whitespace
BlankLine == [kind |-> "blank"]

\* a line that json.loads rejects
TextLine == [kind |-> "text"]

FileLines ==
    {EntityLine(Entity(NameA, TypeT, << >>)),
     JsonDump([name |-> NameB, entity_type |-> TypeU]),
     JsonDump([name |-> NameA, entity_type |-> TypeU, observations |-> <<ObsX>>]),
     RelationLine(Relation(NameA, NameB, <<"r">>)),
     BlankLine,
     TextLine,
     JsonDump([name |-> NameB]),
     JsonDump([name |-> NameB, from_entity |-> NameA, to_entity |-> NameB,
               relation_type |-> <<"r">>]),
     JsonDump([from_entity |-> NameA, to_entity |-> NameB]),
     JsonDump([from_entity |-> NameA, relation_type |-> <<"r">>]),
     JsonDump([entity_type |-> TypeT])}

Files == {[exists |-> TRUE, lines |-> lines] : lines \in SeqsUpTo(FileLines, MaxLines)}

EntityListsLoad == {<<entity_data>> : entity_data \in EntityData}
NameListsLoad == {<<name>> : name \in Names}

\* KnowledgeGraph() by the process that has no instance yet
construct ==
    /\ made = 0
    /\ ~is_dir
    /\ KnowledgeGraph
    /\ last' = Call("KnowledgeGraph", << >>)
    /\ UNCHANGED <<graph, lock, pc, call, ret, is_dir, resource>>

\* no instance yet; the file is missing or holds what was written to it
InitLoad ==
    /\ entities = << >>
    /\ relations = << >>
    /\ file \in Files \cup {[exists |-> FALSE, lines |-> << >>]}
    /\ last = Call("init", << >>)
    /\ graph = None
    /\ lock = Free
    /\ pc = [t \in Threads |-> "idle"]
    /\ call = [t \in Threads |-> "none"]
    /\ ret = [t \in Threads |-> Pending]
    /\ made = 0
    /\ retired = << >>
    /\ is_dir = FALSE
    /\ resource = NoResource
    /\ environ = NoEnviron
    /\ storage_path = ResolveStoragePath(NoEnviron)
    /\ disk = NoFiles
    /\ shared = {}

\* the construction, then calls that save
NextLoad ==
    \/ construct
    \/ made = 1 /\ \E input \in EntityListsLoad : create_entities(input)
    \/ made = 1 /\ \E entity_names \in NameListsLoad : delete_entities(entity_names)

SpecLoad == InitLoad /\ [][NextLoad]_vars

-----------------------------------------------------------------------------
(* The environment changed while instances are constructed and used        *)

\* os.environ[key] = value
setenv(key, value) ==
    /\ environ' = [k \in DOMAIN environ \cup {key} |-> IF k = key THEN value ELSE environ[k]]
    /\ last' = Call("setenv", << >>)
    /\ UNCHANGED <<entities, relations, file, storage_path, disk, shared, mvars>>

\* del os.environ[key]
unsetenv(key) ==
    /\ key \in DOMAIN environ
    /\ environ' = [k \in DOMAIN environ \ {key} |-> environ[k]]
    /\ last' = Call("unsetenv", << >>)
    /\ UNCHANGED <<entities, relations, file, storage_path, disk, shared, mvars>>

\* KnowledgeGraph() once more, as get_graph calls it after clear_graph: the
\* instance before it is retired
construct_again ==
    /\ made >= 1
    /\ made < MaxMade
    /\ ~is_dir
    /\ KnowledgeGraph
    /\ last' = Call("KnowledgeGraph", << >>)
    /\ UNCHANGED <<graph, lock, pc, call, ret, is_dir, resource>>

NextEnv ==
    \/ \E key \in DOMAIN EnvValues : \E value \in EnvValues[key] : setenv(key, value)
    \/ \E key \in DOMAIN EnvValues : unsetenv(key)
    \/ construct_again
    \/ \E input \in EntityListsLoad : create_entities(input)
    \/ \E entity_names \in NameListsLoad : delete_entities(entity_names)

SpecEnv == Init /\ [][NextEnv]_vars

-----------------------------------------------------------------------------
(* Properties                                                              *)

Range(s) == {s[i] : i \in DOMAIN s}

\* two entity maps are equal by key and value, whatever the insertion order
SameMap(d1, d2) ==
    /\ DictKeys(d1) = DictKeys(d2)
    /\ Len(d1) = Len(d2)
    /\ \A k \in DictKeys(d1) : DictGet(d1, k) = DictGet(d2, k)

\* what a fresh store constructed from file f holds
Fresh(f) == _load_graph(f)

\* C1: a create_entities call whose list holds a name that is already an
\* entity returns "Entity already exists: <name>" for the first such name in
\* input order and leaves the entities, the relations and the file unchanged.
C1_CreateEntitiesAllOrNothing ==
    [][last'.op = "create_entities" =>
        \A input \in EntityListsGraph :
            LET existing == {i \in DOMAIN input : input[i].name \in DictKeys(entities)}
            IN  (existing # {} /\ create_entities(input)) =>
                    LET first == CHOOSE i \in existing : \A j \in existing : i <= j
                    IN  /\ last'.res = <<"Entity already exists: ", input[first].name>>
                        /\ entities' = entities
                        /\ relations' = relations
                        /\ file' = file]_vars

\* a rejected create_entities call in a store that holds an entity, a relation
\* and a free name: a list can name the free entity before the existing one
C1_Witness ==
    /\ last.op = "create_entities"
    /\ last.res[1] = "Entity already exists: "
    /\ last.res[2] \in DictKeys(entities)
    /\ Len(entities) = 1
    /\ Len(relations) = 1
    /\ Len(file.lines) = 2

\* C2: a create_relations call with a valid first relation and a second one
\* that names a nonexistent entity returns the not-found message for the
\* second, and the first relation is in the in-memory list and in the file,
\* so that a fresh store constructed from the file contains it.
C2_FirstRelationPersisted ==
    [][last'.op = "create_relations" =>
        \A input \in RelationLists :
            (/\ Len(input) = 2
             /\ {input[1].from_entity, input[1].to_entity} \subseteq DictKeys(entities)
             /\ ~({input[2].from_entity, input[2].to_entity} \subseteq DictKeys(entities))
             /\ create_relations(input)) =>
                LET first == Relation(input[1].from_entity, input[1].to_entity,
                                      input[1].relation_type)
                IN  /\ last'.res = <<"One or both entities not found:",
                                     input[2].from_entity, input[2].to_entity>>
                    /\ relations' = Append(relations, first)
                    /\ first \in Range(Fresh(file').relations)]_vars

\* C3: after every call, loading the file yields exactly the in-memory entity
\* map and relation list.
C3_AlwaysFlushed ==
    LET fresh == Fresh(file)
    IN  /\ SameMap(fresh.entities, entities)
        /\ fresh.relations = relations

\* C4: delete_entities returns "Successfully deleted entities"; the given
\* names that were entities are entities no more, every relation with such a
\* name at either end is removed, and all other entities and relations stay
\* as they were, in their order.
C4_DeleteEntitiesCascades ==
    [][last'.op = "delete_entities" =>
        \A entity_names \in NameLists :
            delete_entities(entity_names) =>
                LET deleted == Range(entity_names) \cap DictKeys(entities)
                IN  /\ last'.res = <<"Successfully deleted entities">>
                    /\ entities' = SelectSeq(entities, LAMBDA e : e.name \notin deleted)
                    /\ relations' = SelectSeq(relations,
                                        LAMBDA r : /\ r.from_entity \notin deleted
                                                   /\ r.to_entity \notin deleted)]_vars

\* after a delete_entities call one entity and two relations are left, while
\* the file holds what is left
C4_Witness ==
    /\ last.op = "delete_entities"
    /\ Len(entities) = 1
    /\ Len(relations) = 2
    /\ Len(file.lines) = 3

\* C5: an add_observations call whose list names an entity that does not
\* exist returns "Entity not found: <name>" for the first such item and adds
\* no observation: the entities and the file are unchanged.
C5_AddObservationsValidatesFirst ==
    [][last'.op = "add_observations" =>
        \A input \in ObservationListsObs :
            LET missing == {i \in DOMAIN input : input[i].entity_name \notin DictKeys(entities)}
            IN  (missing # {} /\ add_observations(input)) =>
                    LET first == CHOOSE i \in missing : \A j \in missing : i <= j
                    IN  /\ last'.res = <<"Entity not found: ", input[first].entity_name>>
                        /\ entities' = entities
                        /\ relations' = relations
                        /\ file' = file]_vars

\* a rejected add_observations call in a store that holds one entity and lacks
\* the other: a list can address the existing entity before the missing one
C5_Witness ==
    /\ last.op = "add_observations"
    /\ last.res[1] = "Entity not found: "
    /\ last.res[2] \notin DictKeys(entities)
    /\ Len(entities) = 1
    /\ Len(entities[1].observations) < MaxObsObs

\* C6: a delete_observations call whose list names an entity that does not
\* exist returns "Entity not found: <name>" and applies no deletion: the
\* observations of every entity are as before the call.
C6_DeleteObservationsAbortsWithoutEffect ==
    [][last'.op = "delete_observations" =>
        \A deletions \in DeletionLists :
            LET missing == {i \in DOMAIN deletions :
                                deletions[i].entity_name \notin DictKeys(entities)}
            IN  (missing # {} /\ delete_observations(deletions)) =>
                    LET first == CHOOSE i \in missing : \A j \in missing : i <= j
                    IN  /\ last'.res = <<"Entity not found: ", deletions[first].entity_name>>
                        /\ entities' = entities]_vars

\* C7: a delete_relations call with a tuple that matches no relation returns
\* "Relation not found: <from> -> <to>" for the first such tuple and removes
\* no relation: the relation list and the file are unchanged.
C7_DeleteRelationsAllOrNothing ==
    [][last'.op = "delete_relations" =>
        \A input \in RelationLists :
            LET unmatched == {i \in DOMAIN input :
                                Relation(input[i].from_entity, input[i].to_entity,
                                         input[i].relation_type) \notin Range(relations)}
            IN  (unmatched # {} /\ delete_relations(input)) =>
                    LET first == CHOOSE i \in unmatched : \A j \in unmatched : i <= j
                    IN  /\ last'.res = <<"Relation not found: ", input[first].from_entity,
                                         " -> ", input[first].to_entity>>
                        /\ relations' = relations
                        /\ entities' = entities
                        /\ file' = file]_vars

\* a rejected delete_relations call in a store that holds relations: a list
\* can name a stored relation before the unmatched one
C7_Witness ==
    /\ last.op = "delete_relations"
    /\ last.res[1] = "Relation not found: "
    /\ Len(relations) >= 2
    /\ Len(entities) = 2

\* C8: saving a store and constructing a fresh store from the file yields an
\* equal entity map (entity_type, observations in order) and an equal relation
\* list, in the same order, duplicates included.
C8_RoundTrip ==
    LET fresh == Fresh(_save_graph(entities, relations))
    IN  /\ SameMap(fresh.entities, entities)
        /\ fresh.relations = relations

\* a saved store with an entity that holds two observations and with one
\* relation stored twice
C8_Witness ==
    /\ file = _save_graph(entities, relations)
    /\ \E i \in DOMAIN entities : Len(entities[i].observations) = 2
    /\ \E i, j \in DOMAIN relations : i < j /\ relations[i] = relations[j]

\* C9: a create_entities call that names an entity created before returns
\* "Entity already exists: <name>", and the store still holds exactly one
\* entity of that name, with the entity_type and observations it had.
C9_DuplicateRejected ==
    [][last'.op = "create_entities" =>
        \A input \in EntityListsGraph :
            LET again == {input[i].name : i \in DOMAIN input} \cap DictKeys(entities)
            IN  (again # {} /\ create_entities(input)) =>
                    /\ last'.res[1] = "Entity already exists: "
                    /\ last'.res[2] \in again
                    /\ \A n \in again :
                        /\ Cardinality({i \in DOMAIN entities' : entities'[i].name = n}) = 1
                        /\ DictGet(entities', n) = DictGet(entities, n)]_vars

\* a second create_entities call is rejected right after a first one
\* succeeded, and the entity holds the two observations of its creation
C9_Witness ==
    /\ last.op = "create_entities"
    /\ last.res[1] = "Entity already exists: "
    /\ \E i \in DOMAIN entities :
        /\ entities[i].name = last.res[2]
        /\ entities[i].entity_type = TypeU
        /\ entities[i].observations = <<ObsX, ObsY>>

\* C10: a create_entities call that returns "Successfully created entities"
\* adds as many entities as its list is long and stores each given entity
\* with the entity_type and observations it was given.
C10_CreateAddsEveryGivenEntity ==
    [][(last'.op = "create_entities" /\ last'.res = <<"Successfully created entities">>) =>
        \A input \in EntityListsGraph :
            create_entities(input) =>
                /\ Len(entities') = Len(entities) + Len(input)
                /\ \A i \in DOMAIN input :
                    /\ input[i].name \in DictKeys(entities')
                    /\ DictGet(entities', input[i].name) =
                        Entity(input[i].name, input[i].entity_type,
                               IF "observations" \in DOMAIN input[i]
                               THEN input[i].observations ELSE << >>)]_vars

\* C11: a create_relations call in which both endpoints of every given
\* relation are existing entities returns "Successfully created relations"
\* and appends all given relations to the end of the relation list in input
\* order; the relations already stored keep their places, and a tuple that
\* is already present or that relates an entity to itself is appended too.
C11_CreateRelationsAppends ==
    [][last'.op = "create_relations" =>
        \A input \in RelationLists :
            (/\ \A i \in DOMAIN input :
                    {input[i].from_entity, input[i].to_entity} \subseteq DictKeys(entities)
             /\ create_relations(input)) =>
                /\ last'.res = <<"Successfully created relations">>
                /\ relations' = relations \o
                        [i \in DOMAIN input |->
                            Relation(input[i].from_entity, input[i].to_entity,
                                     input[i].relation_type)]
                /\ entities' = entities]_vars

\* a successful create_relations call has left the self-relation b -> b
\* twice at the end of a list that began with another relation
C11_Witness ==
    /\ last.op = "create_relations"
    /\ last.res = <<"Successfully created relations">>
    /\ Len(relations) = 3
    /\ relations[1] = Relation(NameA, NameB, <<"r">>)
    /\ relations[2] = Relation(NameB, NameB, <<"r">>)
    /\ relations[3] = relations[2]

\* C12: when threads call get_graph concurrently and no call resets the
\* handle, KnowledgeGraph is constructed at most once, and every get_graph
\* that has returned a value has returned that one instance.
C12_OneInstance ==
    /\ made <= 1
    /\ \A t \in Threads :
        ret[t].kind = "value" => (made = 1 /\ ret[t].graph = Ref(1))

\* one thread has got the instance from get_graph while the other, which
\* found the handle empty outside the lock, tests it again inside the lock
C12_Witness ==
    \E t, u \in Threads :
        /\ call[t] = "get_graph"
        /\ ret[t] = Value(Ref(1))
        /\ pc[u] = "get_recheck"
        /\ lock = {u}

\* C13: every get_graph call that returns normally returns a constructed
\* instance, never None, whatever get_graph and clear_graph calls the other
\* threads make meanwhile.
C13_GetGraphReturnsInstance ==
    \A t \in Threads : ret[t].kind = "value" => ret[t].graph # None

\* C14: with one caller, when clear_graph returns the handle is None, every
\* instance constructed so far holds no entity and no relation, and no step
\* of the call has changed the file; a clear_graph that finds no instance
\* changes nothing; the get_graph that follows constructs a new instance
\* whose entities and relations are those that loading the file yields.
C14_ClearThenGetReloads ==
    [][\A t \in ThreadsSeq :
        /\ (pc[t] = "clear_release" /\ pc'[t] = "idle") =>
                /\ graph' = None
                /\ entities' = << >>
                /\ relations' = << >>
                /\ \A i \in DOMAIN retired' : retired'[i] = EmptyState
        /\ (call[t] = "clear_graph" /\ pc[t] # "idle") => file' = file
        /\ (call[t] = "clear_graph" /\ pc[t] # "idle" /\ graph = None) =>
                UNCHANGED <<graph, made, entities, relations, retired, file>>
        /\ (pc[t] = "get_construct" /\ pc'[t] = "get_release") =>
                /\ made' = made + 1
                /\ graph' = Ref(made')
                /\ file'.exists
                /\ entities' = Fresh(file').entities
                /\ relations' = Fresh(file').relations]_vars

\* after a tool call created an entity and clear_graph emptied the first
\* instance, get_graph has returned a second instance, which holds the entity
C14_Witness ==
    /\ made = 2
    /\ retired = <<EmptyState>>
    /\ call[1] = "get_graph"
    /\ pc[1] = "idle"
    /\ ret[1] = Value(Ref(2))
    /\ graph = Ref(2)
    /\ Len(entities) = 1
    /\ Len(file.lines) = 1

\* the steps that construct an instance for the handle or clear and reset it
Critical == {"get_construct", "load_construct", "clear_clear", "clear_reset"}

\* C15: at most one thread at a time stands at a step that constructs a
\* KnowledgeGraph for the handle or that clears and resets it, such a thread
\* holds the lock, and the handle and the number of instances change only in
\* a step of the thread that holds the lock.
C15_MutualExclusion ==
    /\ [](/\ \A t \in Threads : pc[t] \in Critical => lock = {t}
          /\ Cardinality({t \in Threads : pc[t] \in Critical}) <= 1)
    /\ [][(graph' # graph \/ made' # made) =>
            \E t \in Threads : lock = {t} /\ pc[t] \in Critical /\ pc'[t] # pc[t]]_vars

\* one thread is about to reset the handle while the other waits for the lock
\* in get_graph and a second instance was made
C15_Witness ==
    \E t, u \in Threads :
        /\ pc[t] = "clear_reset"
        /\ pc[u] = "get_acquire"
        /\ made = 2

MutatingOps ==
    {"create_entities", "create_relations", "add_observations",
     "delete_entities", "delete_observations", "delete_relations"}

\* the leading text of a result that describes a failure
FailureTexts ==
    {"Entity already exists: ", "One or both entities not found:", "Entity not found: ",
     "Relation not found: ", "Invalid entity data", "Invalid relation data"}

SuccessTexts ==
    {"Successfully created entities", "Successfully created relations",
     "Successfully added observations", "Successfully deleted entities",
     "Successfully deleted observations", "Successfully deleted relations"}

\* a dict that lacks one of the fields or holds the empty string in one
Malformed(data, fields) ==
    \E f \in fields : f \notin DOMAIN data \/ data[f] = << >>

\* C17: a mutating call whose input holds a duplicate entity, a missing
\* endpoint, an unknown entity or relation, or a dict that lacks a required
\* field or holds an empty string returns a text that describes the failure,
\* raises no exception, and leaves the entities, the relations and the file
\* as they were.
C17_ValidationFailuresAreResults ==
    [][/\ last'.op = "create_entities" =>
            \A input \in EntityListsInvalid :
                (/\ \E i \in DOMAIN input :
                        \/ Malformed(input[i], {"name", "entity_type"})
                        \/ input[i].name \in DictKeys(entities)
                 /\ create_entities(input)) =>
                    /\ last'.res[1] \in FailureTexts
                    /\ UNCHANGED <<entities, relations, file>>
       /\ last'.op = "create_relations" =>
            \A input \in RelationListsInvalid :
                (/\ \E i \in DOMAIN input :
                        \/ Malformed(input[i], {"from_entity", "to_entity", "relation_type"})
                        \/ input[i].from_entity \notin DictKeys(entities)
                        \/ input[i].to_entity \notin DictKeys(entities)
                 /\ create_relations(input)) =>
                    /\ last'.res[1] \in FailureTexts
                    /\ UNCHANGED <<entities, relations, file>>
       /\ (last'.op \in MutatingOps /\ last'.res[1] \notin SuccessTexts) =>
            /\ last'.res[1] \in FailureTexts
            /\ UNCHANGED <<entities, relations, file>>]_vars

\* C18: a create_entities call with an entity whose name is the empty string
\* returns a text that begins with "Invalid entity data" and creates no
\* entity.
C18_EmptyNameRejected ==
    [][last'.op = "create_entities" =>
        \A input \in EntityListsInvalid :
            (/\ \E i \in DOMAIN input : "name" \in DOMAIN input[i] /\ input[i].name = << >>
             /\ create_entities(input)) =>
                /\ last'.res[1] = "Invalid entity data"
                /\ entities' = entities]_vars

\* C19: a create_relations call with a relation whose from_entity is the
\* empty string returns a text that begins with "Invalid relation data" and
\* appends no relation.
C19_EmptyFromEntityRejected ==
    [][last'.op = "create_relations" =>
        \A input \in RelationListsInvalid :
            (/\ \E i \in DOMAIN input :
                    "from_entity" \in DOMAIN input[i] /\ input[i].from_entity = << >>
             /\ create_relations(input)) =>
                /\ last'.res[1] = "Invalid relation data"
                /\ relations' = relations]_vars

\* str contains q: some prefix of str, q and some suffix of str make up str
Contains(str, q) ==
    \E i, j \in 0..Len(str) :
        /\ i <= j
        /\ SubSeq(str, 1, i) \o q \o SubSeq(str, j + 1, Len(str)) = str

\* C20: search_nodes(query) returns exactly the entities for which the
\* lower-cased query is contained in the lower-cased name, in the lower-cased
\* entity_type or in one of the lower-cased observations, each with its
\* entity_type and observations, and exactly the relations, in store order,
\* that have a returned entity as from_entity or to_entity; both are empty
\* when no entity matches.
C20_SearchNodes ==
    [][last'.op = "search_nodes" =>
        \A query \in Queries :
            search_nodes(query) =>
                LET q == Lower(query)
                    found == {i \in DOMAIN entities :
                                \/ Contains(Lower(entities[i].name), q)
                                \/ Contains(Lower(entities[i].entity_type), q)
                                \/ \E k \in DOMAIN entities[i].observations :
                                        Contains(Lower(entities[i].observations[k]), q)}
                    names == {entities[i].name : i \in found}
                IN  /\ Range(last'.res.entities) = {entities[i] : i \in found}
                    /\ Len(last'.res.entities) = Cardinality(found)
                    /\ last'.res.relations =
                            SelectSeq(relations,
                                LAMBDA r : r.from_entity \in names \/ r.to_entity \in names)
                    /\ found = {} =>
                            (last'.res.entities = << >> /\ last'.res.relations = << >>)]_vars

\* a search in a store of two entities has returned the entity A alone, which
\* holds the observation "xY", and the relation that ends at it
C20_Witness ==
    /\ last.op = "search_nodes"
    /\ Len(entities) = 2
    /\ Len(last.res.entities) = 1
    /\ last.res.entities[1].name = NameA
    /\ last.res.entities[1].observations = <<ObsY>>
    /\ last.res.relations = <<Relation(NameB, NameA, <<"r">>)>>

\* C21: open_nodes(names) returns exactly the entities whose name is in
\* names, each with its entity_type and observations, a name that is no
\* entity adding nothing and raising nothing, and exactly the relations, in
\* store order, that have a returned entity as from_entity or as to_entity.
C21_OpenNodes ==
    [][last'.op = "open_nodes" =>
        \A names \in NameLists :
            open_nodes(names) =>
                LET found == {i \in DOMAIN entities : entities[i].name \in Range(names)}
                    returned == {entities[i].name : i \in found}
                IN  /\ Range(last'.res.entities) = {entities[i] : i \in found}
                    /\ Len(last'.res.entities) = Cardinality(found)
                    /\ last'.res.relations =
                            SelectSeq(relations,
                                LAMBDA r : r.from_entity \in returned
                                           \/ r.to_entity \in returned)]_vars

\* open_nodes has returned one of two entities and the relation that ends
\* at it and begins at the other
C21_Witness ==
    /\ last.op = "open_nodes"
    /\ Len(entities) = 2
    /\ Len(last.res.entities) = 1
    /\ Len(last.res.relations) = 1
    /\ last.res.relations[1].to_entity = last.res.entities[1].name
    /\ last.res.relations[1].from_entity # last.res.entities[1].name

\* C22: a read_graph call returns the entities with their entity_type and
\* observations and the relations in list order as the store holds them,
\* and a read_graph call that follows a read_graph call returns the same.
C22_IdempotentRead ==
    /\ [](last.op = "read_graph" =>
            /\ last.res.entities = entities
            /\ last.res.relations = relations)
    /\ [][(last.op = "read_graph" /\ last'.op = "read_graph") =>
            last'.res = last.res]_vars

\* read_graph has returned two entities, one with an observation, and a
\* relation
C22_Witness ==
    /\ last.op = "read_graph"
    /\ Len(last.res.entities) = 2
    /\ \E i \in DOMAIN last.res.entities : last.res.entities[i].observations # << >>
    /\ Len(last.res.relations) = 1

\* C23: read_graph, search_nodes and open_nodes leave the entities, the
\* relations and the file as they are.
C23_ReadOnlyOperationsNeverSave ==
    [][last'.op \in {"read_graph", "search_nodes", "open_nodes"} =>
        UNCHANGED <<entities, relations, file>>]_vars

\* search_nodes has returned while the file lacks a relation that the store
\* holds, so that a save would have changed the file
C23_Witness ==
    /\ last.op = "search_nodes"
    /\ Len(relations) = 1
    /\ file # _save_graph(entities, relations)

\* the sequences of a sequence, one after the other
RECURSIVE Concat(_)
Concat(seqs) ==
    IF seqs = << >> THEN << >> ELSE Head(seqs) \o Concat(Tail(seqs))

\* C27: after an add_observations call that returns "Successfully added
\* observations", the observations of every entity are those it had,
\* followed by the contents of every item of the call addressed to it, in
\* input order and with duplicates; the name and entity_type of every
\* entity, the order of the entities and the relations are unchanged.
C27_AddObservationsExtends ==
    [][(last'.op = "add_observations"
            /\ last'.res = <<"Successfully added observations">>) =>
        \A input \in ObservationListsObs :
            add_observations(input) =>
                /\ Len(entities') = Len(entities)
                /\ \A i \in DOMAIN entities :
                    LET addressed == SelectSeq(input,
                                        LAMBDA item : item.entity_name = entities[i].name)
                    IN  /\ entities'[i].name = entities[i].name
                        /\ entities'[i].entity_type = entities[i].entity_type
                        /\ entities'[i].observations =
                                entities[i].observations \o
                                Concat([k \in DOMAIN addressed |-> addressed[k].contents])
                /\ relations' = relations]_vars

\* C28: after a delete_observations call that returns "Successfully deleted
\* observations", every entity holds the observations it had, in their
\* order, except those equal to an observation that an item of the call
\* names for it, of which none is left; an observation the entity does not
\* hold changes nothing; the name and entity_type of every entity, the order
\* of the entities and the relations are unchanged.
C28_DeleteObservationsRemovesAll ==
    [][(last'.op = "delete_observations"
            /\ last'.res = <<"Successfully deleted observations">>) =>
        \A deletions \in DeletionLists :
            delete_observations(deletions) =>
                /\ Len(entities') = Len(entities)
                /\ \A i \in DOMAIN entities :
                    LET named == {deletions[k].observation :
                                    k \in {m \in DOMAIN deletions :
                                            deletions[m].entity_name = entities[i].name}}
                    IN  /\ entities'[i].name = entities[i].name
                        /\ entities'[i].entity_type = entities[i].entity_type
                        /\ entities'[i].observations =
                                SelectSeq(entities[i].observations, LAMBDA o : o \notin named)
                        /\ named \cap Range(entities'[i].observations) = {}
                        /\ named \cap Range(entities[i].observations) = {} =>
                                entities'[i] = entities[i]
                /\ relations' = relations]_vars

\* after a successful delete_observations call one entity holds a single
\* observation and the other still holds two
C28_Witness ==
    /\ last.op = "delete_observations"
    /\ last.res = <<"Successfully deleted observations">>
    /\ Len(entities) = 2
    /\ \E i, j \in DOMAIN entities :
        /\ entities[i].observations = <<ObsY>>
        /\ Len(entities[j].observations) = 2

-----------------------------------------------------------------------------
(* What a load is to yield, stated on the lines of the file                *)

IsObject(line) == line.kind = "json"

\* an object that is to become an entity
IsEntityObject(line) ==
    /\ IsObject(line)
    /\ {"name", "entity_type"} \subseteq DOMAIN line.value

\* an object that is to become a relation
IsRelationObject(line) ==
    /\ IsObject(line)
    /\ "name" \notin DOMAIN line.value
    /\ {"from_entity", "to_entity", "relation_type"} \subseteq DOMAIN line.value

EntityOf(line) ==
    [name |-> line.value.name,
     entity_type |-> line.value.entity_type,
     observations |-> IF "observations" \in DOMAIN line.value
                      THEN line.value.observations ELSE << >>]

RelationOf(line) ==
    [from_entity |-> line.value.from_entity,
     to_entity |-> line.value.to_entity,
     relation_type |-> line.value.relation_type]

\* where the lines first and last give an entity the name
FirstLineOf(lines, name) ==
    CHOOSE i \in DOMAIN lines :
        /\ IsEntityObject(lines[i]) /\ lines[i].value.name = name
        /\ \A j \in 1..(i - 1) : ~(IsEntityObject(lines[j]) /\ lines[j].value.name = name)

LastLineOf(lines, name) ==
    CHOOSE i \in DOMAIN lines :
        /\ IsEntityObject(lines[i]) /\ lines[i].value.name = name
        /\ \A j \in (i + 1)..Len(lines) :
              ~(IsEntityObject(lines[j]) /\ lines[j].value.name = name)

\* ents is the map of the entity objects among the lines: one entry per
\* name, in the order in which the names first appear, with the value of
\* the last line of that name
IsMapOfLines(ents, lines) ==
    /\ DictKeys(ents) = {lines[i].value.name : i \in {j \in DOMAIN lines : IsEntityObject(lines[j])}}
    /\ Cardinality(DictKeys(ents)) = Len(ents)
    /\ \A i \in DOMAIN ents : ents[i] = EntityOf(lines[LastLineOf(lines, ents[i].name)])
    /\ \A i, j \in DOMAIN ents :
          i < j => FirstLineOf(lines, ents[i].name) < FirstLineOf(lines, ents[j].name)

\* rels is the list of the relation objects among the lines, in line order
IsListOfLines(rels, lines) ==
    LET objects == SelectSeq(lines, IsRelationObject)
    IN  rels = [i \in DOMAIN objects |-> RelationOf(objects[i])]

\* a line of a file that holds entities, relations, blank lines and lines
\* that are not JSON, and no other object
IsPlainLine(line) ==
    \/ line.kind \in {"blank", "text"}
    \/ IsEntityObject(line) /\ "from_entity" \notin DOMAIN line.value
    \/ IsRelationObject(line)

\* C24: a line that is not valid JSON is skipped and does not stop the
\* load: constructing on a file of valid entity lines, valid relation
\* lines, blank lines and non-JSON lines yields exactly the entities and
\* the relations of the valid lines, in line order (the entities, when no
\* name repeats, one per entity line), those after a non-JSON line included.
C24_NonJsonLinesSkipped ==
    [][(last'.op = "KnowledgeGraph" /\ file.exists
        /\ \A i \in DOMAIN file.lines : IsPlainLine(file.lines[i]))
       => LET valid == SelectSeq(file.lines, IsObject)
              entity_lines == SelectSeq(file.lines, IsEntityObject)
          IN  /\ IsMapOfLines(entities', valid)
              /\ IsListOfLines(relations', valid)
              /\ (\A i, j \in DOMAIN entity_lines :
                     entity_lines[i].value.name = entity_lines[j].value.name => i = j)
                  => entities' = [i \in DOMAIN entity_lines |-> EntityOf(entity_lines[i])]
      ]_vars

\* a store constructed on a file whose first line is not JSON, with an
\* entity and a relation loaded from the lines after it
C24_Witness ==
    /\ last.op = "KnowledgeGraph"
    /\ Len(file.lines) = 3
    /\ file.lines[1].kind = "text"
    /\ Len(entities) = 1
    /\ Len(relations) = 1

\* C25: load classifies each JSON object by its fields: with a name it is
\* an entity (observations default to the empty list) and is skipped when
\* entity_type is missing; with from_entity and no name it is a relation
\* and is skipped when to_entity or relation_type is missing; with neither
\* it is skipped; a skipped object adds nothing.
C25_LoadClassifiesByFields ==
    [][(last'.op = "KnowledgeGraph" /\ file.exists)
       => /\ IsMapOfLines(entities', file.lines)
          /\ IsListOfLines(relations', file.lines)
      ]_vars

\* a store constructed on three objects, of which the one with a name and
\* no entity_type and the one with from_entity and no relation_type were
\* skipped, and the one without observations became an entity
C25_Witness ==
    /\ last.op = "KnowledgeGraph"
    /\ Len(file.lines) = 3
    /\ \E i \in 1..3 : /\ IsObject(file.lines[i])
                        /\ "name" \in DOMAIN file.lines[i].value
                        /\ "entity_type" \notin DOMAIN file.lines[i].value
    /\ \E i \in 1..3 : /\ IsObject(file.lines[i])
                        /\ DOMAIN file.lines[i].value = {"from_entity", "to_entity"}
    /\ entities = <<Entity(NameB, TypeU, << >>)>>
    /\ relations = << >>

\* the file holds one line per entity of ents, in map order, then one line
\* per relation of rels, in list order, and no other line
HoldsExactly(f, ents, rels) ==
    /\ f.exists
    /\ Len(f.lines) = Len(ents) + Len(rels)
    /\ \A i \in DOMAIN ents :
          /\ f.lines[i].kind = "json"
          /\ f.lines[i].value = [name |-> ents[i].name,
                                 entity_type |-> ents[i].entity_type,
                                 observations |-> ents[i].observations]
    /\ \A i \in DOMAIN rels :
          /\ f.lines[Len(ents) + i].kind = "json"
          /\ f.lines[Len(ents) + i].value = [from_entity |-> rels[i].from_entity,
                                             to_entity |-> rels[i].to_entity,
                                             relation_type |-> rels[i].relation_type]

\* C26: save overwrites the whole file with the current state: after a call
\* that saved (one that reports success, or one that changed the file) the
\* file holds exactly one line per entity, in the insertion order of the
\* map, then one line per relation, in list order; nothing of what the file
\* held before remains.
C26_SaveOverwrites ==
    [][(/\ last'.op \in MutatingOps
        /\ last'.res[1] \in SuccessTexts \/ file' # file)
       => HoldsExactly(file', entities', relations')]_vars

\* a store that deleted the one entity it had loaded and kept the relation
\* it had loaded: the file holds the line of the relation alone
C26_Witness ==
    /\ last.op = "delete_entities"
    /\ last.res[1] \in SuccessTexts
    /\ entities = << >>
    /\ Len(relations) = 1
    /\ Len(file.lines) = 1

\* C30: constructing a store whose file does not exist creates an empty
\* file and yields an empty store; constructing a store whose file is empty
\* or holds only blank lines yields an empty store and leaves the file as
\* it is.
C30_MissingOrEmptyFile ==
    [][last'.op = "KnowledgeGraph"
       => /\ ~file.exists
             => /\ file' = [exists |-> TRUE, lines |-> << >>]
                /\ entities' = << >> /\ relations' = << >>
          /\ (file.exists /\ \A i \in DOMAIN file.lines : file.lines[i].kind = "blank")
             => /\ file' = file
                /\ entities' = << >> /\ relations' = << >>
      ]_vars

\* a store constructed on a file of two blank lines
C30_Witness ==
    /\ last.op = "KnowledgeGraph"
    /\ file.exists
    /\ Len(file.lines) = 2
    /\ \A i \in DOMAIN file.lines : file.lines[i].kind = "blank"
    /\ entities = << >>
    /\ relations = << >>

-----------------------------------------------------------------------------
(* Where the file is to be, stated on the three inputs                     *)

\* the use-local flag is set
UseLocal(env) ==
    /\ "LOCAL_STORAGE" \in DOMAIN env
    /\ env["LOCAL_STORAGE"] \in {<<"t", "r", "u", "e">>, <<"T", "r", "u", "e">>}

FileName(env) ==
    IF "MEMORY_FILE_NAME" \in DOMAIN env THEN env["MEMORY_FILE_NAME"] ELSE <<"memory.json">>

\* the base directory, the working directory when none is given; a relative
\* one is below the working directory
BaseDirectory(env) ==
    IF "MEMORY_FILE_PATH" \in DOMAIN env
    THEN IF env["MEMORY_FILE_PATH"][1] = "/"
         THEN env["MEMORY_FILE_PATH"]
         ELSE <<"/", "cwd">> \o env["MEMORY_FILE_PATH"]
    ELSE <<"/", "cwd">>

Directory(env) == IF UseLocal(env) THEN <<"/", "cwd">> ELSE BaseDirectory(env)

\* an instance keeps its storage path whatever is called or set, a call
\* writes no file but the one at the storage path, and a change of the
\* environment changes neither the path nor a file nor the store
KeepsLocation ==
    /\ last'.op # "KnowledgeGraph" => storage_path' = storage_path
    /\ last'.op \in MutatingOps => disk' = disk
    /\ last'.op \in {"setenv", "unsetenv"}
          => UNCHANGED <<storage_path, file, disk, entities, relations>>

\* C29 as stated: the storage location is fixed at construction from the
\* three inputs, <current working directory>/<file name> when the use-local
\* flag is set and <base directory>/<file name> otherwise; the instance keeps
\* it for all its operations, and a changed configuration takes effect only
\* for an instance constructed afterwards.
C29_LocationInDirectory ==
    [][/\ last'.op = "KnowledgeGraph"
          => Location(storage_path') = Directory(environ) \o FileName(environ)
       /\ KeepsLocation]_vars

\* C29, amended: as above, except that a file name that is an absolute path
\* is the storage location itself, whatever the flag and the base directory.
C29_LocationResolvedAtConstruction ==
    [][/\ last'.op = "KnowledgeGraph"
          => Location(storage_path') =
                IF FileName(environ)[1] = "/" THEN FileName(environ)
                ELSE Directory(environ) \o FileName(environ)
       /\ KeepsLocation]_vars

\* the second instance, constructed with the flag set and another file name
\* after the first, has created an entity in its file, while the environment
\* set since then names another location and the file of the first instance
\* is where it was
C29_Witness ==
    /\ made = 2
    /\ last.op = "create_entities"
    /\ last.res = <<"Successfully created entities">>
    /\ storage_path = <<"/", "cwd", "m.json">>
    /\ Location(ResolveStoragePath(environ)) # storage_path
    /\ Len(file.lines) = 1
    /\ disk[<<"/", "cwd", "memory.json">>].exists

-----------------------------------------------------------------------------
(* The relation list and the entity map                                    *)

\* C32: referential integrity: in every state reached from the empty store
\* by the public operations, create_relations calls that fail part-way and
\* delete_entities among them, from_entity and to_entity of every relation
\* of the list are names of entities of the map.
C32_ReferentialIntegrity ==
    \A i \in DOMAIN relations :
        /\ relations[i].from_entity \in DictKeys(entities)
        /\ relations[i].to_entity \in DictKeys(entities)

\* a create_relations call has failed after it appended a relation, and an
\* earlier relation is still there
C32_Witness ==
    /\ last.op = "create_relations"
    /\ last.res[1] = "One or both entities not found:"
    /\ Len(relations) >= 2
    /\ Len(entities) = 1

\* C37: after a delete_relations call that returns "Successfully deleted
\* relations" no relation equal to a given tuple remains, however often it
\* was stored, and the relations equal to no given tuple remain in their
\* order; a call whose tuples are all stored succeeds, also when it gives
\* one of them twice.
C37_DeleteRelationsRemovesAll ==
    [][last'.op = "delete_relations" =>
        \A input \in RelationLists :
            LET given == {Relation(input[i].from_entity, input[i].to_entity,
                                   input[i].relation_type) : i \in DOMAIN input}
            IN  (given \subseteq Range(relations) /\ delete_relations(input)) =>
                    /\ last'.res = <<"Successfully deleted relations">>
                    /\ relations' = SelectSeq(relations, LAMBDA r : r \notin given)
                    /\ entities' = entities]_vars

\* a successful delete_relations call has left one relation of a store of
\* two entities
C37_Witness ==
    /\ last.op = "delete_relations"
    /\ last.res = <<"Successfully deleted relations">>
    /\ Len(relations) = 1
    /\ Len(entities) = 2

\* C39: search_nodes with the empty query matches everything: in every
\* state reached from the empty store by the public operations it returns
\* the entities and the relation list that read_graph returns.
C39_EmptyQueryMatchesAll ==
    [][(last'.op = "search_nodes" /\ search_nodes(<< >>))
       => last'.res = read_graph_result(entities', relations')]_vars

\* a search has returned the two entities and the relation of the store
C39_Witness ==
    /\ last.op = "search_nodes"
    /\ Len(last.res.entities) = 2
    /\ Len(last.res.relations) = 1
    /\ last.res = read_graph_result(entities, relations)

-----------------------------------------------------------------------------
(* The manager: save, reload, and the calls of several threads             *)

\* C36: the manager's save and reload complete: a save_graph or load_graph
\* call that has ended has returned, unless the construction it made failed
\* on the storage path, and after a load_graph call that has ended the
\* handle is on an instance.
C36_SaveAndLoadComplete ==
    \A t \in Threads :
        (pc[t] = "idle" /\ call[t] \in {"save_graph", "load_graph"} /\ ret[t] # Pending)
        => \/ ret[t] = Returned
           \/ ret[t] = Raised("IsADirectoryError")

-----------------------------------------------------------------------------
(* Content given to initialize_graph_from_data whose lines hold any JSON   *)

MaxContent == 2     \* most lines of the content

\* the keys the loop body looks for, as strings
KeyName == <<"n", "a", "m", "e">>
KeyFromEntity == <<"f", "r", "o", "m", "_", "e", "n", "t", "i", "t", "y">>

\* lines whose JSON text is a value that is no object: json.loads accepts
\* them and returns an int, None, a str or a list
NumberLine == [kind |-> "number"]
NullLine == [kind |-> "null"]
StringLine(s) == [kind |-> "string", value |-> s]
ArrayLine(a) == [kind |-> "array", value |-> a]

\* key in data, for data that is a str (substring) or a list (membership)
KeyIn(line, key) ==
    IF line.kind = "string" THEN IsSubstring(key, line.value)
    ELSE key \in Range(line.value)

\* the loop body raises TypeError on the line: "name" in data on an int or
\* None; data["observations"] = [], data["name"] or data["from_entity"] on
\* a str or a list in which one of the two keys was found.  The loop
\* catches JSONDecodeError and KeyError only.
RaisesTypeError(line) ==
    \/ line.kind \in {"number", "null"}
    \/ /\ line.kind \in {"string", "array"}
       /\ (KeyIn(line, KeyName) \/ KeyIn(line, KeyFromEntity))

\* the lines the loop gets through: all of them, or those before the
\* first line on which the body raises
LinesBeforeRaise(content) ==
    LET raising == {i \in DOMAIN content : RaisesTypeError(content[i])}
    IN  IF raising = {} THEN content
        ELSE SubSeq(content, 1, (CHOOSE i \in raising : \A j \in raising : i <= j) - 1)

ContentLines ==
    {EntityLine(Entity(NameA, TypeT, << >>)),
     JsonDump([name |-> NameB, entity_type |-> TypeU]),
     JsonDump([name |-> NameA, entity_type |-> TypeU, observations |-> <<ObsX>>]),
     RelationLine(Relation(NameA, NameB, <<"r">>)),
     RelationLine(Relation(NameB, NameA, <<"r">>)),
     JsonDump([name |-> NameB]),
     BlankLine,
     TextLine,
     NumberLine,
     NullLine,
     StringLine(<<"t">>),
     StringLine(KeyName),
     ArrayLine(<< >>),
     ArrayLine(<<KeyFromEntity>>)}

Contents == SeqsUpTo(ContentLines, MaxContent) \ {<< >>}

\* graph.initialize_graph_from_data(content) on the store: it adds to what
\* the store holds, and does not save
initialize_graph_from_data_call(content) ==
    LET done == LinesBeforeRaise(content)
        out == LoadLines(done, entities, relations)
        loaded == {done[i].value.name : i \in {j \in DOMAIN done : IsEntityObject(done[j])}}
    IN  /\ entities' = out.entities
        /\ relations' = out.relations
        /\ shared' = Unshare(shared, loaded)
        /\ last' = Call("initialize_graph_from_data",
                        IF done = content THEN <<"None">> ELSE <<"TypeError">>)
        /\ UNCHANGED <<file, mvars, pvars>>

\* graph.clear()
clear ==
    /\ entities' = << >>
    /\ relations' = << >>
    /\ shared' = {}
    /\ last' = Call("clear", <<"None">>)
    /\ UNCHANGED <<file, mvars, pvars>>

NextContent ==
    \/ \E content \in Contents :
          initialize_graph_from_data_call(content) /\ Len(relations') <= MaxRelsGraph
    \/ clear
    \/ read_graph

SpecContent == Init /\ [][NextContent]_vars

\* a line that yields an entity or a relation
IsLoadable(line) == IsEntityObject(line) \/ IsRelationObject(line)

\* C31: no single line can make a load fail: whatever the lines of the
\* content are (blank, not JSON, a JSON value that is no object, an object
\* lacking required fields), initialize_graph_from_data returns without
\* raising, and the store holds what the lines that are entities or
\* relations yield, those after such a line included.
C31_NoLineFailsTheLoad ==
    [][last'.op = "initialize_graph_from_data" =>
        \A content \in Contents :
            initialize_graph_from_data_call(content) =>
                /\ last'.res = <<"None">>
                /\ LET out == LoadLines(SelectSeq(content, IsLoadable), entities, relations)
                   IN  entities' = out.entities /\ relations' = out.relations
      ]_vars

-----------------------------------------------------------------------------
(* Tool calls of several threads and clear_graph                           *)

\* the names of the entities the file holds
PersistedNames(f) ==
    {f.lines[i].value.name : i \in {j \in DOMAIN f.lines : IsEntityObject(f.lines[j])}}

\* C33: persisted data is lost only by deletion: in every interleaving of
\* create_entities tool calls with clear_graph calls (no call deletes), an
\* entity that a successful create_entities call wrote to the file is in
\* the file ever after: no step takes a name out of the file.
C33_PersistedOnlyLostByDeletion ==
    [][PersistedNames(file) \subseteq PersistedNames(file')]_vars

-----------------------------------------------------------------------------
(* KnowledgeGraphResource: a resource that keeps what get_graph returned   *)

\* resource = KnowledgeGraphResource(): __init__ calls get_graph()
KnowledgeGraphResource(t) ==
    /\ pc[t] = "idle"
    /\ call' = [call EXCEPT ![t] = "KnowledgeGraphResource"]
    /\ get_check(t)

\* self.graph = get_graph(): the attribute is set once, to what get_graph
\* returned
resource_init(t) ==
    /\ pc[t] = "tool"
    /\ call[t] = "KnowledgeGraphResource"
    /\ resource' = Resource(ret[t].graph)
    /\ Finish(t, Returned)
    /\ UNCHANGED <<entities, relations, file, last, graph, lock, call, made, retired, is_dir,
                   pvars, shared>>

\* what self.graph.read_graph() returns
ResourceReadGraph ==
    LET st == InstanceState(resource.graph[1])
    IN  read_graph_result(st.entities, st.relations)

\* resource.get_entities(): self.graph.read_graph()["entities"]
get_entities(t) ==
    /\ pc[t] = "idle"
    /\ resource.exists
    /\ last' = Call("get_entities", IF resource.graph = None THEN <<"AttributeError">>
                                    ELSE ResourceReadGraph.entities)
    /\ UNCHANGED <<entities, relations, file, mvars, pvars, shared>>

\* resource.get_relations(): self.graph.read_graph()["relations"]
get_relations(t) ==
    /\ pc[t] = "idle"
    /\ resource.exists
    /\ last' = Call("get_relations", IF resource.graph = None THEN <<"AttributeError">>
                                     ELSE ResourceReadGraph.relations)
    /\ UNCHANGED <<entities, relations, file, mvars, pvars, shared>>

\* the resource, the tool function and clear_graph, called one after the
\* other by one thread
NextResource ==
    \/ \E t \in ThreadsSeq : KnowledgeGraphResource(t)
    \/ \E t \in ThreadsSeq : resource_init(t)
    \/ \E t \in ThreadsSeq : get_entities(t)
    \/ \E t \in ThreadsSeq : get_relations(t)
    \/ \E t \in ThreadsSeq : get_acquire(t)
    \/ \E t \in ThreadsSeq : get_recheck(t)
    \/ \E t \in ThreadsSeq : get_construct(t) /\ made' <= MaxMade
    \/ \E t \in ThreadsSeq : get_release(t)
    \/ \E t \in ThreadsSeq : get_return(t)
    \/ \E t \in ThreadsSeq : tool_create_entities(t)
    \/ \E t \in ThreadsSeq : \E input \in ToolEntityLists : tool_create_entities_call(t, input)
    \/ \E t \in ThreadsSeq : clear_graph(t)
    \/ \E t \in ThreadsSeq : clear_acquire(t)
    \/ \E t \in ThreadsSeq : clear_check(t)
    \/ \E t \in ThreadsSeq : clear_clear(t)
    \/ \E t \in ThreadsSeq : clear_reset(t)
    \/ \E t \in ThreadsSeq : clear_release(t)

SpecResource == InitManager /\ [][NextResource]_vars

\* what the tool function read_graph returns when it is called by a thread
\* while no other call is in progress: the state of the instance the
\* handle is on, or of the instance get_graph constructs on the file
CurrentReadGraph ==
    LET st == IF graph # None THEN InstanceState(graph[1])
              ELSE IF file.exists THEN _load_graph(file)
              ELSE EmptyState
    IN  read_graph_result(st.entities, st.relations)

\* C35: a KnowledgeGraphResource always shows the current graph: whenever,
\* in a sequence of tool calls and clear_graph calls after the resource was
\* created, get_entities or get_relations is called, it returns the
\* entities and the relations that read_graph returns at that point.
C35_ResourceShowsCurrentGraph ==
    [][/\ (last'.op = "get_entities" /\ \E t \in ThreadsSeq : get_entities(t))
          => last'.res = CurrentReadGraph.entities
       /\ (last'.op = "get_relations" /\ \E t \in ThreadsSeq : get_relations(t))
          => last'.res = CurrentReadGraph.relations
      ]_vars

-----------------------------------------------------------------------------
(* The lock and the operations of the tool functions                       *)

-----------------------------------------------------------------------------
(* The calls of the manager under fair scheduling                          *)

\* the clear_graph calls that have not yet reset the handle
ClearsInProgress ==
    Cardinality({t \in Threads :
                    pc[t] \in {"clear_acquire", "clear_check", "clear_clear", "clear_reset"}})

\* the calls of the manager by all threads; an instance is constructed only
\* while the handle is None, so the number of instances is kept within
\* MaxMade by the number of clear_graph calls that are let begin
NextFair ==
    \/ \E t \in Threads : get_graph(t)
    \/ \E t \in Threads : get_acquire(t)
    \/ \E t \in Threads : get_recheck(t)
    \/ \E t \in Threads : get_construct(t)
    \/ \E t \in Threads : get_release(t)
    \/ \E t \in Threads : get_return(t)
    \/ \E t \in Threads : clear_graph(t) /\ made + ClearsInProgress < MaxMade
    \/ \E t \in Threads : clear_acquire(t)
    \/ \E t \in Threads : clear_check(t)
    \/ \E t \in Threads : clear_clear(t)
    \/ \E t \in Threads : clear_reset(t)
    \/ \E t \in Threads : clear_release(t)
    \/ \E t \in Threads : save_graph(t)
    \/ \E t \in Threads : save_acquire(t)
    \/ \E t \in Threads : save_check(t)
    \/ \E t \in Threads : load_graph(t)
    \/ \E t \in Threads : load_acquire(t)
    \/ \E t \in Threads : load_check(t)
    \/ \E t \in Threads : load_construct(t)
    \/ \E t \in Threads : load_load(t)
    \/ mkdir
    \/ rmdir

\* with self._lock, in any of the four calls
Acquire(t) == get_acquire(t) \/ clear_acquire(t) \/ save_acquire(t) \/ load_acquire(t)

\* the steps of a call that wait for nothing
Proceed(t) ==
    \/ get_recheck(t) \/ get_construct(t) \/ get_release(t) \/ get_return(t)
    \/ clear_check(t) \/ clear_clear(t) \/ clear_reset(t) \/ clear_release(t)
    \/ save_check(t)
    \/ load_check(t) \/ load_construct(t) \/ load_load(t)

\* fair scheduling: a thread in a call goes on, file I/O included, and a
\* thread that waits for the lock gets it when it is free again and again
SpecFair ==
    /\ InitManager
    /\ [][NextFair]_vars
    /\ \A t \in Threads : WF_vars(Proceed(t)) /\ SF_vars(Acquire(t))

====
